---- MODULE Spec2Model ----
(***************************************************************************)
(* A model of the repository-analysis and test-generation pipeline of      *)
(* test-case-gen: the Gemini service (prompt, model call, response parser, *)
(* fallback generator) and the file-analysis service (classifier,          *)
(* structure detector, strategy resolver, file selector).                  *)
(*                                                                         *)
(* Strings.  A JavaScript string is modelled as the sequence of its UTF-16 *)
(* code units, each a one-character string: the string abc is              *)
(* <<"a", "b", "c">>.  SANY reads no backquote inside a string literal, so *)
(* the backquote is written "<bq>"; a code unit outside printable ASCII,   *)
(* tab, line feed, form feed and carriage return is written as the six     *)
(* characters of its escape, such as "\\u00A0".  Searches, regular         *)
(* expressions, JSON.parse and the template literals work on these         *)
(* characters as the code does on its strings.                             *)
(*                                                                         *)
(* Values.  A JavaScript value is a record tagged by t: undefined, null,   *)
(* bool, num, str, arr, obj, function and prototype (Object.prototype).  A *)
(* number is held as a decimal: its sign, its digits and a power of ten    *)
(* that is zero or negative.  JSON.parse rounds the decimal of the text to *)
(* the nearest double, ties to even, and holds the shortest decimal that   *)
(* denotes that double, which is the one Number::toString prints; beyond   *)
(* the largest double it gives an infinity and below the least one zero.   *)
(* toLowerCase folds the letters A-Z only.  An operation that may throw    *)
(* returns [threw, v]; a parse returns [ok, v].  The names and paths of    *)
(* the file-analysis service are sequences of characters too; its type     *)
(* and framework names are plain strings, compared as wholes only.         *)
(*                                                                         *)
(* Specifications.  Spec is one generateTestCases request, SpecParse one   *)
(* direct call of parseTestCasesResponse, SpecSelect one call of           *)
(* selectFilesForTestGeneration, SpecAnalyze one direct call of            *)
(* analyzeFile, detectProjectStructure or getTestGenerationStrategy,       *)
(* SpecRepeat two calls of createFallbackTestCases in a row, each taken    *)
(* file by file, SpecRepository one POST /generate/repository request and  *)
(* SpecSessions the session store of the auth routes under any sequence of *)
(* requests.                                                               *)
(***************************************************************************)
EXTENDS Naturals, Integers, Sequences, FiniteSets, TLC

VARIABLES
    clock,      \* Date.now() of the request
    pc,         \* position of the request or call under way
    files,      \* the request's file records
    config,     \* the request's generation config
    text,       \* raw response text of the model (when it answered)
    prompt,     \* the prompt built for the model
    reason,     \* reason handed to the fallback generator
    result,     \* the array generateTestCases / parseTestCasesResponse returned
    via,        \* what produced result: direct, block, scan (strategies 1-3) or fallback
    calls,      \* number of model invocations of the request
    repoFiles,  \* file listing handed to selectFilesForTestGeneration
    maxFiles,   \* its maxFiles argument
    selection,  \* what selectFilesForTestGeneration returned
    subject,    \* argument of a direct call of analyzeFile, detectProjectStructure or
                \* getTestGenerationStrategy
    outcome,    \* what that call returned
    earlier,    \* what the previous call of createFallbackTestCases returned
    testCases,  \* the array the latest call of createFallbackTestCases pushes into
    visited,    \* how many files the files.forEach of that call has visited
    request,    \* body of a POST /generate/repository request
    fetched,    \* per selected file, the state of its getFileContent call
    response,   \* the HTTP response of that request
    activeSessions, \* auth.js: session id -> session record
    githubClients,  \* auth.js: session id -> GitHub client
    issued,     \* history: createdAt of every session id handed out so far
    loggedOut,  \* history: the session ids whose logout was served, in that order
    oauthConfigured, \* auth.js: GITHUB_CLIENT_ID and GITHUB_CLIENT_SECRET are both set
    authenticating   \* auth.js: the POST /github requests that wait for GitHub

logins == <<oauthConfigured, authenticating>>

sessions == <<activeSessions, githubClients, issued, loggedOut, logins>>

calling == <<testCases, visited>>

others == <<subject, outcome, earlier, calling, request, fetched, response, sessions>>

vars == <<clock, pc, files, config, text, prompt, reason, result, via, calls, repoFiles, maxFiles,
          selection, others>>

----------------------------------------------------------------------------
(* Characters and sequence helpers *)

QUOTE == "\""
BACKSLASH == "\\"
BQ == "<bq>"
NL == "\n"
FENCE == <<BQ, BQ, BQ>>

LowerCase == <<"a", "b", "c", "d", "e", "f", "g", "h", "i", "j", "k", "l", "m", "n", "o", "p", "q", "r", "s", "t",
        "u", "v", "w", "x", "y", "z">>
UpperCase == <<"A", "B", "C", "D", "E", "F", "G", "H", "I", "J", "K", "L", "M", "N", "O", "P", "Q", "R", "S", "T",
        "U", "V", "W", "X", "Y", "Z">>
DecimalDigits == <<"0", "1", "2", "3", "4", "5", "6", "7", "8", "9">>
HexDigits == <<"0", "1", "2", "3", "4", "5", "6", "7", "8", "9", "A", "B", "C", "D", "E", "F">>
\* The characters of code 32 to 126, in that order.
Printable ==
    <<" ", "!", "\"", "#", "$", "%", "&", "'", "(", ")", "*", "+", ",", "-", ".", "/">> \o DecimalDigits \o <<":", ";", "<", "=", ">", "?", "@">> \o UpperCase \o <<"[", "\\", "]", "^", "_", BQ>>
    \o LowerCase \o <<"{", "|", "}", "~">>

Range(s) == {s[k] : k \in 1..Len(s)}
IndexIn(s, c) == CHOOSE k \in 1..Len(s) : s[k] = c

Letters == Range(LowerCase) \cup Range(UpperCase)
Digits == Range(DecimalDigits)
\* The regular-expression class \w, and the class [a-zA-Z_] an identifier starts with
WordChars == Letters \cup Digits \cup {"_"}
IdentStarts == Letters \cup {"_"}

\* What \s matches and trim removes: white space and line terminators.
WhiteSpace ==
    {" ", "\t", "\n", "\r", "\f", "\\u000B", "\\u00A0", "\\u1680", "\\u2000", "\\u2001",
     "\\u2002", "\\u2003", "\\u2004", "\\u2005", "\\u2006", "\\u2007", "\\u2008", "\\u2009",
     "\\u200A", "\\u2028", "\\u2029", "\\u202F", "\\u205F", "\\u3000", "\\uFEFF"}
\* The white space of the JSON grammar
JsonWhiteSpace == {" ", "\t", "\n", "\r"}
\* The characters below code 32, which no JSON string holds unescaped
ControlChars ==
    {"\t", "\n", "\r", "\f"}
    \cup {"\\u00" \o h \o HexDigits[k] : h \in {"0", "1"}, k \in 1..16}

\* The smallest element of a non-empty set of numbers.
Least(S) == CHOOSE i \in S : \A m \in S : i <= m
Min(a, b) == IF a < b THEN a ELSE b

\* s.slice(i - 1, j): the characters i..j, empty when out of range.
Slice(s, i, j) == IF i > j THEN <<>> ELSE SubSeq(s, i, j)

\* s.startsWith(w, i - 1)
StartsWith(s, i, w) ==
    i + Len(w) - 1 <= Len(s) /\ \A k \in 1..Len(w) : s[i + k - 1] = w[k]

\* s.includes(sub)
Includes(s, sub) == \E i \in 1..(Len(s) - Len(sub) + 1) : StartsWith(s, i, sub)

\* The first position of a..b whose character is in C (want) or outside C (not
\* want); 0 when there is none.  The range is halved so that the depth of the
\* evaluation stays logarithmic in its length.
RECURSIVE FirstWhere(_, _, _, _, _)
FirstOr(left, s, a, b, C, want) == IF left # 0 THEN left ELSE FirstWhere(s, a, b, C, want)
FirstWhere(s, a, b, C, want) ==
    IF a > b THEN 0
    ELSE IF a = b THEN (IF (s[a] \in C) = want THEN a ELSE 0)
    ELSE FirstOr(FirstWhere(s, a, (a + b) \div 2, C, want), s, ((a + b) \div 2) + 1, b, C, want)

\* The last such position.
RECURSIVE LastWhere(_, _, _, _, _)
LastOr(right, s, a, b, C, want) == IF right # 0 THEN right ELSE LastWhere(s, a, b, C, want)
LastWhere(s, a, b, C, want) ==
    IF a > b THEN 0
    ELSE IF a = b THEN (IF (s[a] \in C) = want THEN a ELSE 0)
    ELSE LastOr(LastWhere(s, ((a + b) \div 2) + 1, b, C, want), s, a, (a + b) \div 2, C, want)

\* Position of the first character x at or after i, of the last one; 0 when none.
FirstAt(s, i, x) == FirstWhere(s, i, Len(s), {x}, TRUE)
LastOf(s, x) == LastWhere(s, 1, Len(s), {x}, TRUE)

\* First position >= i outside the class C (Len(s) + 1 when there is none): where
\* a greedy C* that starts at i stops.
OrEnd(k, s) == IF k = 0 THEN Len(s) + 1 ELSE k
SkipAll(s, i, C) ==
    IF i > Len(s) \/ s[i] \notin C THEN i ELSE OrEnd(FirstWhere(s, i + 1, Len(s), C, FALSE), s)
SkipWs(s, i) == SkipAll(s, i, WhiteSpace)

\* String.prototype.trim
TrimTo(s, first) ==
    IF first = 0 THEN <<>> ELSE Slice(s, first, LastWhere(s, first, Len(s), WhiteSpace, FALSE))
Trim(s) == TrimTo(s, FirstWhere(s, 1, Len(s), WhiteSpace, FALSE))

\* String.prototype.toLowerCase, for the letters A to Z
LowerOf(c) == IF c \in Range(UpperCase) THEN LowerCase[IndexIn(UpperCase, c)] ELSE c
ToLowerCase(s) == [k \in 1..Len(s) |-> LowerOf(s[k])]

\* The decimal digits of a natural number
RECURSIVE DigitsOf(_)
DigitsOf(n) ==
    IF n < 10 THEN <<DecimalDigits[n + 1]>>
    ELSE DigitsOf(n \div 10) \o <<DecimalDigits[(n % 10) + 1]>>

\* The natural number a sequence of decimal digits spells
RECURSIVE NumberOf(_)
NumberOf(ds) ==
    IF ds = <<>> THEN 0
    ELSE NumberOf(SubSeq(ds, 1, Len(ds) - 1)) * 10 + (IndexIn(DecimalDigits, ds[Len(ds)]) - 1)

Repeat(c, n) == [k \in 1..n |-> c]

----------------------------------------------------------------------------
(* JavaScript values *)

Undefined == [t |-> "undefined"]
Null == [t |-> "null"]
Str(s) == [t |-> "str", s |-> s]
Bool(b) == [t |-> "bool", b |-> b]
Arr(a) == [t |-> "arr", a |-> a]
Obj(o) == [t |-> "obj", o |-> o]
Fn(name) == [t |-> "function", name |-> name]

\* A number is the decimal (-1)^neg * digits * 10^e with e <= 0: digits starts
\* with no zero and, when e < 0, ends with none; zero has no digits.  A number
\* read from a text is the double nearest to the decimal written there, held
\* as the decimal that Number::toString prints for it, and an infinity has the
\* letters of its name for digits.
Zero == [t |-> "num", neg |-> FALSE, digits |-> <<>>, e |-> 0]
Decimal(neg, ds, e, first, drop) ==
    IF first = 0 THEN Zero
    ELSE [t |-> "num", neg |-> neg, digits |-> SubSeq(ds, first, Len(ds) - drop),
          e |-> e + drop]
\* The zeros that digits ends with
TrailingZeros(ds) == Len(ds) - LastWhere(ds, 1, Len(ds), {"0"}, FALSE)
\* The number digits * 10^e of that sign, for any sequence of decimal digits.
Number(neg, ds, e) ==
    IF e > 0
    THEN Decimal(neg, ds \o Repeat("0", e), 0, FirstWhere(ds, 1, Len(ds), {"0"}, FALSE), 0)
    ELSE Decimal(neg, ds, e, FirstWhere(ds, 1, Len(ds), {"0"}, FALSE),
                 Min(TrailingZeros(ds), 0 - e))
\* The integer n
Num(n) == Number(n < 0, DigitsOf(IF n < 0 THEN 0 - n ELSE n), 0)
\* The integer a number is, for a natural number that TLC can hold
IntOf(v) == NumberOf(v.digits)

\* ToBoolean, as the || and && operators and if-conditions apply it.
Truthy(v) ==
    CASE v.t = "undefined" -> FALSE
      [] v.t = "null" -> FALSE
      [] v.t = "str" -> v.s # <<>>
      [] v.t = "num" -> v.digits # <<>>
      [] v.t = "bool" -> v.b
      [] OTHER -> TRUE

\* a ?? b: a variant of a || b that keeps every value but null and undefined.
Coalesce(a, b) == IF a.t \in {"undefined", "null"} THEN b ELSE a

\* a || b
OrElse(a, b) == IF Truthy(a) THEN a ELSE b

\* Whether reading a property of v throws a TypeError.
Nullish(v) == v.t \in {"undefined", "null"}

\* Whether an object has a member of its own of that name.
HasOwn(v, key) == v.t = "obj" /\ \E k \in 1..Len(v.o) : v.o[k].k = key

\* v[key] for a value that came out of JSON.parse, for a key that no prototype
\* defines: the member of that name of an object, undefined otherwise.
Get(v, key) ==
    IF HasOwn(v, key) THEN v.o[CHOOSE k \in 1..Len(v.o) : v.o[k].k = key].v ELSE Undefined

\* table[key] on an object literal also finds what Object.prototype defines.
\* Every such member is truthy: a native function, or, for __proto__, the
\* prototype itself.  The names are spelled out for the file-analysis service,
\* which holds a type as one word.
InheritedSpelling ==
    [constructor |-> <<"c", "o", "n", "s", "t", "r", "u", "c", "t", "o", "r">>, __proto__ |-> <<"_", "_", "p", "r", "o", "t", "o", "_", "_">>,
     hasOwnProperty |-> <<"h", "a", "s", "O", "w", "n", "P", "r", "o", "p", "e", "r", "t", "y">>, isPrototypeOf |-> <<"i", "s", "P", "r", "o", "t", "o", "t", "y", "p", "e", "O", "f">>,
     propertyIsEnumerable |-> <<"p", "r", "o", "p", "e", "r", "t", "y", "I", "s", "E", "n", "u", "m", "e", "r", "a", "b", "l", "e">>, toLocaleString |-> <<"t", "o", "L", "o", "c", "a", "l", "e", "S", "t", "r", "i", "n", "g">>,
     toString |-> <<"t", "o", "S", "t", "r", "i", "n", "g">>, valueOf |-> <<"v", "a", "l", "u", "e", "O", "f">>,
     __defineGetter__ |-> <<"_", "_", "d", "e", "f", "i", "n", "e", "G", "e", "t", "t", "e", "r", "_", "_">>, __defineSetter__ |-> <<"_", "_", "d", "e", "f", "i", "n", "e", "S", "e", "t", "t", "e", "r", "_", "_">>,
     __lookupGetter__ |-> <<"_", "_", "l", "o", "o", "k", "u", "p", "G", "e", "t", "t", "e", "r", "_", "_">>, __lookupSetter__ |-> <<"_", "_", "l", "o", "o", "k", "u", "p", "S", "e", "t", "t", "e", "r", "_", "_">>]
InheritedNames == DOMAIN InheritedSpelling
InheritedKeys == {InheritedSpelling[n] : n \in InheritedNames}

\* Object.prototype and Function.prototype
ObjectPrototype == [t |-> "prototype", of |-> <<"O", "b", "j", "e", "c", "t">>]
FunctionPrototype == Fn(<<>>)

\* The member as a value; the function behind constructor is named Object.
Inherited(key) ==
    IF key = <<"_", "_", "p", "r", "o", "t", "o", "_", "_">> THEN ObjectPrototype
    ELSE Fn(IF key = <<"c", "o", "n", "s", "t", "r", "u", "c", "t", "o", "r">> THEN <<"O", "b", "j", "e", "c", "t">> ELSE key)

\* An object literal whose members are strings, as the pairs <<key, text>> of the
\* source: table[key], undefined when neither the table nor its prototype has it.
TableHas(table, key) == \E k \in 1..Len(table) : table[k][1] = key
TableAt(table, key) == table[CHOOSE k \in 1..Len(table) : table[k][1] = key][2]
Lookup(table, key) ==
    IF TableHas(table, key) THEN Str(TableAt(table, key))
    ELSE IF key \in InheritedKeys THEN Inherited(key)
    ELSE Undefined

\* String(fn) of a native function
NativeText(name) == <<"f", "u", "n", "c", "t", "i", "o", "n", " ">> \o name \o <<"(", ")", " ", "{", " ", "[", "n", "a", "t", "i", "v", "e", " ", "c", "o", "d", "e", "]", " ", "}">>

\* Number::toString: digits d1..dk and n with value = 0.d1...dk * 10^n.
ExponentText(x) == (IF x < 0 THEN <<"-">> ELSE <<"+">>) \o DigitsOf(IF x < 0 THEN 0 - x ELSE x)
NumberDigits(ds, k, n) ==
    IF k <= n /\ n <= 21 THEN ds \o Repeat("0", n - k)
    ELSE IF 0 < n /\ n <= 21 THEN SubSeq(ds, 1, n) \o <<".">> \o SubSeq(ds, n + 1, k)
    ELSE IF -6 < n /\ n <= 0 THEN <<"0", ".">> \o Repeat("0", 0 - n) \o ds
    ELSE IF k = 1 THEN ds \o <<"e">> \o ExponentText(n - 1)
    ELSE <<ds[1]>> \o <<".">> \o SubSeq(ds, 2, k) \o <<"e">> \o ExponentText(n - 1)
NumberText(v) ==
    IF v.digits = <<>> THEN <<"0">>
    ELSE IF v.digits = <<"I", "n", "f", "i", "n", "i", "t", "y">> THEN (IF v.neg THEN <<"-">> ELSE <<>>) \o v.digits
    ELSE (IF v.neg THEN <<"-">> ELSE <<>>)
         \o NumberDigits(SubSeq(v.digits, 1, Len(v.digits) - TrailingZeros(v.digits)),
                         Len(v.digits) - TrailingZeros(v.digits), Len(v.digits) + v.e)

\* Template-literal interpolation of a value, and a property key made of it.
RECURSIVE ToText(_)
RECURSIVE JoinText(_, _, _)
\* Array.prototype.join from element k on: null and undefined elements are empty.
JoinText(a, k, sep) ==
    IF k > Len(a) THEN <<>>
    ELSE (IF k > 1 THEN sep ELSE <<>>)
         \o (IF Nullish(a[k]) THEN <<>> ELSE ToText(a[k])) \o JoinText(a, k + 1, sep)
ToText(v) ==
    CASE v.t = "str" -> v.s
      [] v.t = "num" -> NumberText(v)
      [] v.t = "bool" -> IF v.b THEN <<"t", "r", "u", "e">> ELSE <<"f", "a", "l", "s", "e">>
      [] v.t = "arr" -> JoinText(v.a, 1, <<",">>)
      [] v.t = "obj" -> <<"[", "o", "b", "j", "e", "c", "t", " ", "O", "b", "j", "e", "c", "t", "]">>
      [] v.t = "prototype" -> <<"[", "o", "b", "j", "e", "c", "t", " ", "O", "b", "j", "e", "c", "t", "]">>
      [] v.t = "function" -> NativeText(v.name)
      [] v.t = "null" -> <<"n", "u", "l", "l">>
      [] OTHER -> <<"u", "n", "d", "e", "f", "i", "n", "e", "d">>

\* Whether that conversion throws a TypeError: an object with a member of its
\* own named toString, which JSON.parse never makes a function, has no
\* primitive value; nor has an array that holds one.
RECURSIVE TextThrows(_)
TextThrows(v) ==
    CASE v.t = "obj" -> HasOwn(v, <<"t", "o", "S", "t", "r", "i", "n", "g">>)
      [] v.t = "arr" -> \E k \in 1..Len(v.a) : TextThrows(v.a[k])
      [] OTHER -> FALSE

----------------------------------------------------------------------------
(* JSON.parse *)

ParseFail == [ok |-> FALSE, v |-> Undefined, i |-> 0]
ParseOk(v, i) == [ok |-> TRUE, v |-> v, i |-> i]

SkipJsonWs(s, i) == SkipAll(s, i, JsonWhiteSpace)

\* The length of the run of backslashes that ends just before position k.
BackslashRun(s, k) == k - 1 - LastWhere(s, 1, k - 1, {BACKSLASH}, FALSE)

\* The quote that closes a string literal, searched from k on: the first one
\* that an even number of backslashes precedes; 0 when there is none.
RECURSIVE ClosingQuote(_, _)
ClosingAt(s, k) ==
    IF k = 0 THEN 0
    ELSE IF BackslashRun(s, k) % 2 = 0 THEN k
    ELSE ClosingQuote(s, k + 1)
ClosingQuote(s, k) == ClosingAt(s, FirstAt(s, k, QUOTE))

HexValue(c) ==
    IF c \in Digits THEN IndexIn(DecimalDigits, c) - 1
    ELSE IF c \in Range(<<"a", "b", "c", "d", "e", "f">>) THEN IndexIn(<<"a", "b", "c", "d", "e", "f">>, c) + 9
    ELSE IndexIn(<<"A", "B", "C", "D", "E", "F">>, c) + 9
IsHex(c) == c \in Digits \cup Range(<<"a", "b", "c", "d", "e", "f", "A", "B", "C", "D", "E", "F">>)

\* The character of a code unit given by four hexadecimal digits: itself when it
\* can be written, else its escape with the digits in upper case.
CodeUnit(h, code) ==
    IF code \in 32..126 THEN Printable[code - 31]
    ELSE IF code = 9 THEN "\t"
    ELSE IF code = 10 THEN "\n"
    ELSE IF code = 12 THEN "\f"
    ELSE IF code = 13 THEN "\r"
    ELSE "\\u" \o HexDigits[HexValue(h[1]) + 1] \o HexDigits[HexValue(h[2]) + 1]
              \o HexDigits[HexValue(h[3]) + 1] \o HexDigits[HexValue(h[4]) + 1]
CharOfHex(h) ==
    CodeUnit(h, ((HexValue(h[1]) * 16 + HexValue(h[2])) * 16 + HexValue(h[3])) * 16
                + HexValue(h[4]))

\* The character a one-letter escape stands for.
SimpleEscapes == {QUOTE, BACKSLASH, "/", "b", "f", "n", "r", "t"}
SimpleEscape(c) ==
    CASE c = "b" -> "\\u0008"
      [] c = "f" -> "\f"
      [] c = "n" -> "\n"
      [] c = "r" -> "\r"
      [] c = "t" -> "\t"
      [] OTHER -> c

\* The characters a..b of a string literal with their escapes resolved: [ok, v].
RECURSIVE Unescaped(_, _, _, _)
UnescapedAt(s, a, b, acc, p) ==
    IF p = 0 THEN [ok |-> TRUE, v |-> acc \o Slice(s, a, b)]
    ELSE IF p = b THEN [ok |-> FALSE, v |-> <<>>]
    ELSE IF s[p + 1] \in SimpleEscapes
    THEN Unescaped(s, p + 2, b, acc \o Slice(s, a, p - 1) \o <<SimpleEscape(s[p + 1])>>)
    ELSE IF s[p + 1] = "u" /\ p + 5 <= b /\ \A k \in (p + 2)..(p + 5) : IsHex(s[k])
    THEN Unescaped(s, p + 6, b, acc \o Slice(s, a, p - 1) \o <<CharOfHex(SubSeq(s, p + 2, p + 5))>>)
    ELSE [ok |-> FALSE, v |-> <<>>]
Unescaped(s, a, b, acc) == UnescapedAt(s, a, b, acc, FirstWhere(s, a, b, {BACKSLASH}, TRUE))

\* A string literal opening at s[j] = QUOTE and closing at s[k]: it holds no
\* control character and only the escapes of the grammar.
JsonStringOf(r, k) == IF r.ok THEN ParseOk(Str(r.v), k + 1) ELSE ParseFail
JsonStringTo(s, j, k) ==
    IF k = 0 \/ FirstWhere(s, j + 1, k - 1, ControlChars, TRUE) # 0 THEN ParseFail
    ELSE JsonStringOf(Unescaped(s, j + 1, k - 1, <<>>), k)
JsonString(s, j) == JsonStringTo(s, j, ClosingQuote(s, j + 1))

----------------------------------------------------------------------------
(* The double a decimal denotes.  A natural number of any size is the        *)
(* sequence of its limbs in base 1000, the least significant first and the   *)
(* last one not zero; zero has no limbs.  A carry is told from the limbs     *)
(* below without a recursion: one is passed on by limbs that are full.       *)

LimbAt(a, i) == IF i <= Len(a) THEN a[i] ELSE 0
\* The limbs 1..n of a function, without the zeros at the top
Size(a) ==
    IF a # <<>> /\ a[Len(a)] # 0 THEN Len(a)
    ELSE IF \A i \in 1..Len(a) : a[i] = 0 THEN 0
    ELSE CHOOSE i \in 1..Len(a) : a[i] # 0 /\ \A j \in (i + 1)..Len(a) : a[j] = 0
Trimmed(a) == SubSeq(a, 1, Size(a))
LimbsIn(f, n) == Trimmed(SubSeq(f, 1, n))

\* The number a sequence of decimal digits spells
LimbOf(ds, i) == NumberOf(Slice(ds, IF Len(ds) - 3 * i + 1 < 1 THEN 1 ELSE Len(ds) - 3 * i + 1,
                                Len(ds) - 3 * i + 3))
LimbsOf(ds) == LimbsIn([i \in 1..((Len(ds) + 2) \div 3) |-> LimbOf(ds, i)], (Len(ds) + 2) \div 3)

\* -1, 0 or 1 as a is below, equal to or above b: the highest limb that
\* differs decides.
Compare(a, b) ==
    IF Len(a) < Len(b) THEN 0 - 1
    ELSE IF Len(a) > Len(b) THEN 1
    ELSE IF a = b THEN 0
    ELSE IF a[Len(a)] # b[Len(a)] THEN (IF a[Len(a)] < b[Len(a)] THEN 0 - 1 ELSE 1)
    ELSE IF \E i \in 1..Len(a) : a[i] < b[i] /\ \A j \in (i + 1)..Len(a) : a[j] = b[j]
    THEN 0 - 1
    ELSE 1

\* a + b: a carry reaches limb i from the limb below when that one overflows,
\* or from a limb further down through limbs that sum to 999.
CarryFrom(a, b, i) ==
    \E j \in 1..(i - 1) :
        /\ LimbAt(a, j) + LimbAt(b, j) >= 1000
        /\ \A m \in (j + 1)..i : LimbAt(a, m) + LimbAt(b, m) = 999
CarryInto(a, b, i) ==
    /\ i > 1
    /\ \/ LimbAt(a, i - 1) + LimbAt(b, i - 1) >= 1000
       \/ LimbAt(a, i - 1) + LimbAt(b, i - 1) = 999 /\ CarryFrom(a, b, i - 1)
SumLimb(a, b, i) ==
    (LimbAt(a, i) + LimbAt(b, i) + (IF CarryInto(a, b, i) THEN 1 ELSE 0)) % 1000
PlusTo(a, b, n) == LimbsIn([i \in 1..(n + 1) |-> SumLimb(a, b, i)], n + 1)
Plus(a, b) == PlusTo(a, b, IF Len(a) > Len(b) THEN Len(a) ELSE Len(b))

\* a - b for a >= b: limb i lends to the limb below when that one is short, or
\* to a limb further down through limbs that are equal.
LendsBelow(a, b, i) ==
    \E j \in 1..(i - 1) :
        /\ a[j] < LimbAt(b, j)
        /\ \A m \in (j + 1)..i : a[m] = LimbAt(b, m)
BorrowFrom(a, b, i) ==
    /\ i > 1
    /\ \/ a[i - 1] < LimbAt(b, i - 1)
       \/ a[i - 1] = LimbAt(b, i - 1) /\ LendsBelow(a, b, i - 1)
DifferenceLimb(a, b, i) ==
    (a[i] - LimbAt(b, i) - (IF BorrowFrom(a, b, i) THEN 1 ELSE 0) + 1000) % 1000
Minus(a, b) == LimbsIn([i \in 1..Len(a) |-> DifferenceLimb(a, b, i)], Len(a))

\* a * k for 0 <= k < 10^6: each product a[i] * k is three limbs, which make
\* three numbers to add.
ProductLimbs(a, k, unit) == SubSeq([i \in 1..Len(a) |-> ((a[i] * k) \div unit) % 1000], 1, Len(a))
Times(a, k) ==
    Plus(Plus(ProductLimbs(a, k, 1), <<0>> \o ProductLimbs(a, k, 1000)),
         <<0, 0>> \o ProductLimbs(a, k, 1000000))

\* a * 2^n and a * 10^n
RECURSIVE TimesTwoTo(_, _)
TimesTwoTo(a, n) ==
    IF a = <<>> THEN <<>>
    ELSE IF n <= 19 THEN Times(a, 2^n)
    ELSE TimesTwoTo(TimesTwoTo(a, n \div 2), n - n \div 2)
TimesTenTo(a, n) == IF a = <<>> THEN <<>> ELSE Repeat(0, n \div 3) \o Times(a, 10^(n % 3))

TwoTo52 == TimesTwoTo(<<1>>, 52)
TwoTo53 == TimesTwoTo(<<1>>, 53)

\* The value n / d divided by 2^q, as a numerator and a denominator
Numerator(n, q) == IF q < 0 THEN TimesTwoTo(n, 0 - q) ELSE n
Denominator(d, q) == IF q > 0 THEN TimesTwoTo(d, q) ELSE d

\* The exponent of the double nearest below n / d, which is about 10^p: the q
\* with 2^52 <= (n / d) / 2^q < 2^53, and -1074 for a value below 2^-1022.
\* 10^(p - 1) is 2 to the power (p - 1) * 3.321928..., and n / d less than 10
\* times that: q is at most 6 above the exponent of 10^(p - 1) less one.
FirstExponent(p) ==
    IF ((p - 1) * 3321928) \div 1000000 - 53 < 0 - 1074 THEN 0 - 1074
    ELSE ((p - 1) * 3321928) \div 1000000 - 53
HasExponent(t, b, q) ==
    /\ q = 0 - 1074 \/ Compare(t, TimesTwoTo(b, 52)) >= 0
    /\ Compare(t, TimesTwoTo(b, 53)) < 0
ExponentFrom(t, b, q) == q + (CHOOSE j \in 0..6 : HasExponent(t, TimesTwoTo(b, j), q + j))
BinaryExponent(n, d, p) ==
    ExponentFrom(Numerator(n, FirstExponent(p)), Denominator(d, FirstExponent(p)),
                 FirstExponent(p))

\* The first k bits of t / c in binary for t < 2 * c, the bit of the units
\* first, and what is left of t, doubled with every bit: half of the bits
\* before the other half, which divides what the first half leaves.
Bits(m, r) == [m |-> m, r |-> r]
Lower(m, rest) == Bits(m \o rest.m, rest.r)
RECURSIVE Quotient(_, _, _)
QuotientLower(upper, c, k) == Lower(upper.m, Quotient(upper.r, c, k))
Quotient(t, c, k) ==
    IF k > 1 THEN QuotientLower(Quotient(t, c, k \div 2), c, k - k \div 2)
    ELSE IF Compare(t, c) >= 0 THEN Bits(<<1>>, Plus(Minus(t, c), Minus(t, c)))
    ELSE Bits(<<0>>, Plus(t, t))
\* The number that the bits lo..hi spell
RECURSIVE BitsOf(_, _, _)
BitsOf(m, lo, hi) ==
    IF lo = hi THEN (IF m[lo] = 1 THEN <<1>> ELSE <<>>)
    ELSE Plus(TimesTwoTo(BitsOf(m, lo, (lo + hi) \div 2), hi - (lo + hi) \div 2),
              BitsOf(m, (lo + hi) \div 2 + 1, hi))

IsOdd(m) == m # <<>> /\ m[1] % 2 = 1
\* Round to nearest, ties to even: qr.r / c is twice the fraction left.
RoundsUp(qr, c) ==
    \/ Compare(qr.r, c) > 0
    \/ qr.r = c /\ qr.m[Len(qr.m)] = 1
Mantissa(qr, c) ==
    IF RoundsUp(qr, c) THEN Plus(BitsOf(qr.m, 1, Len(qr.m)), <<1>>)
    ELSE BitsOf(qr.m, 1, Len(qr.m))
Normalized(m, q) == IF m = TwoTo53 THEN [m |-> TwoTo52, q |-> q + 1] ELSE [m |-> m, q |-> q]
\* The 53 bits of t / c * 2^52, which is below 2^53, rounded
Divided(t, c, q) == Normalized(Mantissa(Quotient(t, c, 53), c), q)
RoundedAt(n, d, q) == Divided(Numerator(n, q), TimesTwoTo(Denominator(d, q), 52), q)
\* The double m * 2^q nearest to n / d, where n / d is about 10^p
Rounded(n, d, p) == RoundedAt(n, d, BinaryExponent(n, d, p))

\* The shortest decimal that denotes the double m * 2^q and no other, the
\* nearest to it of that length: Number::toString.  r / s is the double and
\* up / s, down / s are half the gaps to the doubles above and below, which the
\* decimals that round to it must stay within, the ends included for an even m.
Gaps(r, s, up, down) == [r |-> r, s |-> s, up |-> up, down |-> down]
GapsOf(m, q) ==
    IF q >= 0
    THEN IF m # TwoTo52
         THEN Gaps(TimesTwoTo(m, q + 1), <<2>>, TimesTwoTo(<<1>>, q), TimesTwoTo(<<1>>, q))
         ELSE Gaps(TimesTwoTo(m, q + 2), <<4>>, TimesTwoTo(<<1>>, q + 1), TimesTwoTo(<<1>>, q))
    ELSE IF q = 0 - 1074 \/ m # TwoTo52
         THEN Gaps(Times(m, 2), TimesTwoTo(<<1>>, 1 - q), <<1>>, <<1>>)
         ELSE Gaps(Times(m, 4), TimesTwoTo(<<1>>, 2 - q), <<2>>, <<1>>)
\* The same with the value divided by 10^k
DividedBy(x, k) ==
    IF k >= 0 THEN Gaps(x.r, TimesTenTo(x.s, k), x.up, x.down)
    ELSE Gaps(TimesTenTo(x.r, 0 - k), x.s, TimesTenTo(x.up, 0 - k), TimesTenTo(x.down, 0 - k))
AtTop(r, s, up, even) ==
    IF even THEN Compare(Plus(r, up), s) >= 0 ELSE Compare(Plus(r, up), s) > 0
AtBottom(r, down, even) == IF even THEN Compare(r, down) <= 0 ELSE Compare(r, down) < 0
TooLow(x, even) == AtTop(x.r, x.s, x.up, even)
TooHigh(x, even) ==
    IF even THEN Compare(Times(Plus(x.r, x.up), 10), x.s) < 0
    ELSE Compare(Times(Plus(x.r, x.up), 10), x.s) <= 0
\* The k for which the decimal is 0.d1d2... * 10^k; the double is about 10^p.
DecimalExponent(x, p, even) ==
    CHOOSE k \in (p - 2)..(p + 2) :
        ~TooLow(DividedBy(x, k), even) /\ ~TooHigh(DividedBy(x, k), even)

\* The digits so far, and whether they are all: the digit d is the last one
\* when the decimal that ends with it, or with d + 1, is within the gaps; of
\* the two the nearer one ends it, and the even one when they are as near.
Generated(r, s, up, down, ds, done) ==
    [r |-> r, s |-> s, up |-> up, down |-> down, ds |-> ds, done |-> done]
LastDigit(d, r, s, up, down, even) ==
    IF ~AtTop(r, s, up, even) THEN d
    ELSE IF ~AtBottom(r, down, even) THEN d + 1
    ELSE IF Compare(Plus(r, r), s) < 0 THEN d
    ELSE IF Plus(r, r) = s /\ d % 2 = 0 THEN d
    ELSE d + 1
Decided(d, r, s, up, down, ds, even) ==
    IF ~AtBottom(r, down, even) /\ ~AtTop(r, s, up, even)
    THEN Generated(r, s, up, down, Append(ds, DecimalDigits[d + 1]), FALSE)
    ELSE Generated(r, s, up, down,
                   Append(ds, DecimalDigits[LastDigit(d, r, s, up, down, even) + 1]), TRUE)
DigitOf(d, r10, s, up, down, ds, even) ==
    Decided(d, Minus(r10, Times(s, d)), s, up, down, ds, even)
\* The digit is the whole part of r10 / s, which is below 10.
WholeOfTen(r10, s) == Cardinality({j \in 1..9 : Compare(Times(s, j), r10) <= 0})
DigitAfter(r10, s, up, down, ds, even) ==
    DigitOf(WholeOfTen(r10, s), r10, s, up, down, ds, even)
NextDigit(x, even) ==
    DigitAfter(Times(x.r, 10), x.s, Times(x.up, 10), Times(x.down, 10), x.ds, even)
\* At most n more digits, half of them before the other half
RECURSIVE DigitsFrom(_, _, _)
DigitsFrom(x, n, even) ==
    IF x.done THEN x
    ELSE IF n = 1 THEN NextDigit(x, even)
    ELSE DigitsFrom(DigitsFrom(x, n \div 2, even), n - n \div 2, even)
\* A double has a decimal of 17 digits for itself.
DigitsOfGaps(x, even) ==
    DigitsFrom(Generated(x.r, x.s, x.up, x.down, <<>>, FALSE), 17, even).ds

\* The number 0.d1d2... * 10^k
NumberAt(neg, ds, k) == Number(neg, ds, k - Len(ds))
ShortestAt(neg, x, k, even) == NumberAt(neg, DigitsOfGaps(DividedBy(x, k), even), k)
ShortestOf(neg, x, p, even) == ShortestAt(neg, x, DecimalExponent(x, p, even), even)
Shortest(neg, m, q, p) == ShortestOf(neg, GapsOf(m, q), p, ~IsOdd(m))

\* The double that the decimal (-1)^neg * ds * 10^e rounds to, as the decimal
\* that Number::toString prints for it.  sig is ds without the zeros at its two
\* ends.  A decimal of 10^310 or more is beyond every double and one below
\* 10^-324 is nearer to zero than to the least double; one of at most 15 digits
\* within the normal range is the shortest decimal of its own double.
Infinity(neg) == [t |-> "num", neg |-> neg, digits |-> <<"I", "n", "f", "i", "n", "i", "t", "y">>, e |-> 0]
DoubleOfRounded(neg, x, p) ==
    IF x.q > 971 THEN Infinity(neg)
    ELSE IF x.m = <<>> THEN Zero
    ELSE Shortest(neg, x.m, x.q, p)
DoubleAt(neg, sig, e) ==
    IF Len(sig) + e > 309 THEN Infinity(neg)
    ELSE IF Len(sig) + e < 0 - 323 THEN Zero
    ELSE IF Len(sig) <= 15 /\ Len(sig) + e >= 0 - 300 /\ Len(sig) + e <= 300
    THEN Number(neg, sig, e)
    ELSE DoubleOfRounded(neg,
                         Rounded(IF e >= 0 THEN TimesTenTo(LimbsOf(sig), e) ELSE LimbsOf(sig),
                                 IF e >= 0 THEN <<1>> ELSE TimesTenTo(<<1>>, 0 - e),
                                 Len(sig) + e),
                         Len(sig) + e)
Significant(neg, ds, e, first, last) ==
    IF first = 0 THEN Zero ELSE DoubleAt(neg, SubSeq(ds, first, last), e + Len(ds) - last)
Double(neg, ds, e) ==
    Significant(neg, ds, e, FirstWhere(ds, 1, Len(ds), {"0"}, FALSE),
                LastWhere(ds, 1, Len(ds), {"0"}, FALSE))

\* A number opening at s[j]: -?(0|[1-9][0-9]*)(\.[0-9]+)?([eE][+-]?[0-9]+)?
\* i is the first digit, f the end of the integer part, g the end of the fraction,
\* x the first digit of the exponent, h the end of the exponent.  An exponent
\* of ten or more digits is beyond every double, whatever its digits are.
ExponentDigits(ds, first) ==
    IF first = 0 THEN 0
    ELSE IF Len(ds) - first + 1 > 9 THEN 999999999
    ELSE NumberOf(SubSeq(ds, first, Len(ds)))
ExponentSize(ds) == ExponentDigits(ds, FirstWhere(ds, 1, Len(ds), {"0"}, FALSE))
ExponentOf(s, x, h) ==
    IF x = 0 THEN 0
    ELSE IF s[x - 1] = "-" THEN 0 - ExponentSize(SubSeq(s, x, h))
    ELSE ExponentSize(SubSeq(s, x, h))
JsonNumberOf(s, j, i, f, g, x, h) ==
    ParseOk(Double(s[j] = "-",
                   SubSeq(s, i, f) \o Slice(s, f + 2, g),
                   ExponentOf(s, x, h) - (IF g > f THEN g - f - 1 ELSE 0)),
            (IF x = 0 THEN g ELSE h) + 1)
\* After the fraction: an exponent needs a digit after e and its optional sign;
\* without one the number ends at g.
JsonExponent(s, j, i, f, g, x) ==
    IF x <= Len(s) /\ s[x] \in Digits
    THEN JsonNumberOf(s, j, i, f, g, x, SkipAll(s, x, Digits) - 1)
    ELSE ParseFail
JsonFraction(s, j, i, f, g) ==
    IF g + 1 <= Len(s) /\ s[g + 1] \in {"e", "E"}
    THEN JsonExponent(s, j, i, f, g,
                      IF g + 2 <= Len(s) /\ s[g + 2] \in {"+", "-"} THEN g + 3 ELSE g + 2)
    ELSE JsonNumberOf(s, j, i, f, g, 0, 0)
\* After the integer part, which ends at f: a point needs a digit after it.
JsonInteger(s, j, i, f) ==
    IF f + 1 <= Len(s) /\ s[f + 1] = "."
    THEN IF f + 2 <= Len(s) /\ s[f + 2] \in Digits
         THEN JsonFraction(s, j, i, f, SkipAll(s, f + 2, Digits) - 1)
         ELSE ParseFail
    ELSE JsonFraction(s, j, i, f, f)
JsonDigits(s, j, i) ==
    IF i > Len(s) \/ s[i] \notin Digits THEN ParseFail
    ELSE JsonInteger(s, j, i, IF s[i] = "0" THEN i ELSE SkipAll(s, i, Digits) - 1)
JsonNumber(s, j) == JsonDigits(s, j, IF s[j] = "-" THEN j + 1 ELSE j)

\* a < b for two natural numbers written without leading zeros, digit by digit
DigitAt(ds, m) == IndexIn(DecimalDigits, ds[m])
Below(a, b) ==
    \/ Len(a) < Len(b)
    \/ /\ Len(a) = Len(b)
       /\ \E m \in 1..Len(a) :
             /\ DigitAt(a, m) < DigitAt(b, m)
             /\ \A j \in 1..(m - 1) : a[j] = b[j]
NotAbove(a, b) == a = b \/ Below(a, b)

\* The largest array index, 2^32 - 2
MaxIndex == <<"4", "2", "9", "4", "9", "6", "7", "2", "9", "4">>

\* A property takes its place among the keys the object has: an array index in
\* ascending order before every other key, another key at the end; a key that
\* is there already keeps its place and takes the new value.
IsIndexKey(k) ==
    /\ k # <<>>
    /\ \A m \in 1..Len(k) : k[m] \in Digits
    /\ (k[1] # "0" \/ Len(k) = 1)
    /\ NotAbove(k, MaxIndex)
IndexKeysBelow(o, key) ==
    Cardinality({m \in 1..Len(o) : IsIndexKey(o[m].k) /\ Below(o[m].k, key)})
IndexKeys(o) == Cardinality({m \in 1..Len(o) : IsIndexKey(o[m].k)})
InsertMember(o, p, member) == SubSeq(o, 1, p - 1) \o <<member>> \o SubSeq(o, p, Len(o))
WithMember(o, key, v) ==
    IF \E m \in 1..Len(o) : o[m].k = key
    THEN [o EXCEPT ![CHOOSE m \in 1..Len(o) : o[m].k = key].v = v]
    ELSE IF IsIndexKey(key) THEN InsertMember(o, IndexKeysBelow(o, key) + 1, [k |-> key, v |-> v])
    ELSE Append(o, [k |-> key, v |-> v])

RECURSIVE JsonValue(_, _), JsonElements(_, _, _), JsonMembers(_, _, _)

\* The value that starts at s[j], white space skipped: [ok, v, i], i the position
\* after it.
JsonValue(s, j) ==
    IF j > Len(s) THEN ParseFail
    ELSE CASE s[j] = "{" -> JsonMembers(s, SkipJsonWs(s, j + 1), <<>>)
           [] s[j] = "[" -> JsonElements(s, SkipJsonWs(s, j + 1), <<>>)
           [] s[j] = QUOTE -> JsonString(s, j)
           [] s[j] = "n" -> IF StartsWith(s, j, <<"n", "u", "l", "l">>) THEN ParseOk(Null, j + 4) ELSE ParseFail
           [] s[j] = "t" ->
                IF StartsWith(s, j, <<"t", "r", "u", "e">>) THEN ParseOk(Bool(TRUE), j + 4) ELSE ParseFail
           [] s[j] = "f" ->
                IF StartsWith(s, j, <<"f", "a", "l", "s", "e">>) THEN ParseOk(Bool(FALSE), j + 5) ELSE ParseFail
           [] s[j] \in Digits \cup {"-"} -> JsonNumber(s, j)
           [] OTHER -> ParseFail

\* After an element r and the white space behind it, at k: "," and another
\* element, or "]".
JsonElementEnd(s, acc, k) ==
    IF k > Len(s) THEN ParseFail
    ELSE IF s[k] = "," THEN JsonElements(s, SkipJsonWs(s, k + 1), acc)
    ELSE IF s[k] = "]" THEN ParseOk(Arr(acc), k + 1)
    ELSE ParseFail
JsonElement(s, acc, r) ==
    IF ~r.ok THEN ParseFail ELSE JsonElementEnd(s, Append(acc, r.v), SkipJsonWs(s, r.i))
\* After "[" or ",", at j, with the elements acc: "]" closes an empty array.
JsonElements(s, j, acc) ==
    IF j > Len(s) THEN ParseFail
    ELSE IF s[j] = "]" /\ acc = <<>> THEN ParseOk(Arr(<<>>), j + 1)
    ELSE JsonElement(s, acc, JsonValue(s, j))

\* After a member and the white space behind it, at k: "," and another member,
\* or "}".
JsonMemberEnd(s, acc, k) ==
    IF k > Len(s) THEN ParseFail
    ELSE IF s[k] = "," THEN JsonMembers(s, SkipJsonWs(s, k + 1), acc)
    ELSE IF s[k] = "}" THEN ParseOk(Obj(acc), k + 1)
    ELSE ParseFail
JsonMember(s, acc, key, r) ==
    IF ~r.ok THEN ParseFail
    ELSE JsonMemberEnd(s, WithMember(acc, key, r.v), SkipJsonWs(s, r.i))
\* After a key and the white space behind it, at c: ":" and a value.
JsonColon(s, acc, key, c) ==
    IF ~key.ok \/ c > Len(s) THEN ParseFail
    ELSE IF s[c] # ":" THEN ParseFail
    ELSE JsonMember(s, acc, key.v.s, JsonValue(s, SkipJsonWs(s, c + 1)))
JsonKey(s, acc, key) == JsonColon(s, acc, key, IF key.ok THEN SkipJsonWs(s, key.i) ELSE 0)
\* After "{" or ",", at j, with the members acc: "}" closes an empty object;
\* otherwise a string key.
JsonMembers(s, j, acc) ==
    IF j > Len(s) THEN ParseFail
    ELSE IF s[j] = "}" /\ acc = <<>> THEN ParseOk(Obj(<<>>), j + 1)
    ELSE IF s[j] # QUOTE THEN ParseFail
    ELSE JsonKey(s, acc, JsonString(s, j))

\* JSON.parse(s): [ok, v]; ok = FALSE stands for the SyntaxError it throws.
JsonDocument(s, r) ==
    IF r.ok /\ SkipJsonWs(s, r.i) > Len(s) THEN [ok |-> TRUE, v |-> r.v]
    ELSE [ok |-> FALSE, v |-> Undefined]
JSONparse(s) == JsonDocument(s, JsonValue(s, SkipJsonWs(s, 1)))

----------------------------------------------------------------------------
(* GeminiService: language tables *)

\* filename.split('.').pop(): what follows the last dot, the whole when none.
LastDotPart(filename) == Slice(filename, LastOf(filename, ".") + 1, Len(filename))

languageMap ==
    <<<<<<"j", "s">>, <<"j", "a", "v", "a", "s", "c", "r", "i", "p", "t">>>>, <<<<"j", "s", "x">>, <<"j", "a", "v", "a", "s", "c", "r", "i", "p", "t">>>>, <<<<"t", "s">>, <<"t", "y", "p", "e", "s", "c", "r", "i", "p", "t">>>>,
      <<<<"t", "s", "x">>, <<"t", "y", "p", "e", "s", "c", "r", "i", "p", "t">>>>, <<<<"p", "y">>, <<"p", "y", "t", "h", "o", "n">>>>, <<<<"j", "a", "v", "a">>, <<"j", "a", "v", "a">>>>, <<<<"c">>, <<"c">>>>,
      <<<<"c", "p", "p">>, <<"c", "p", "p">>>>, <<<<"c", "s">>, <<"c", "s", "h", "a", "r", "p">>>>, <<<<"p", "h", "p">>, <<"p", "h", "p">>>>, <<<<"r", "b">>, <<"r", "u", "b", "y">>>>,
      <<<<"g", "o">>, <<"g", "o">>>>, <<<<"r", "s">>, <<"r", "u", "s", "t">>>>, <<<<"s", "w", "i", "f", "t">>, <<"s", "w", "i", "f", "t">>>>>>

\* languageMap[ext] || 'javascript', for the lower-cased ext
LanguageOf(ext) == OrElse(Lookup(languageMap, ext), Str(<<"j", "a", "v", "a", "s", "c", "r", "i", "p", "t">>))

\* The language of a file name, a string, or the member of Object.prototype that
\* the extension names.
detectLanguage(filename) == LanguageOf(ToLowerCase(LastDotPart(filename)))

frameworkMap ==
    <<<<<<"j", "a", "v", "a", "s", "c", "r", "i", "p", "t">>, <<"j", "e", "s", "t">>>>, <<<<"t", "y", "p", "e", "s", "c", "r", "i", "p", "t">>, <<"j", "e", "s", "t">>>>, <<<<"p", "y", "t", "h", "o", "n">>, <<"p", "y", "t", "e", "s", "t">>>>,
      <<<<"j", "a", "v", "a">>, <<"j", "u", "n", "i", "t">>>>, <<<<"c", "s", "h", "a", "r", "p">>, <<"n", "u", "n", "i", "t">>>>, <<<<"p", "h", "p">>, <<"p", "h", "p", "u", "n", "i", "t">>>>, <<<<"r", "u", "b", "y">>, <<"r", "s", "p", "e", "c">>>>,
      <<<<"g", "o">>, <<"t", "e", "s", "t", "i", "n", "g">>>>, <<<<"r", "u", "s", "t">>, <<"c", "a", "r", "g", "o", " ", "t", "e", "s", "t">>>>>>

\* frameworkMap[language] || 'jest'; the key is the text of the language.
getDefaultFramework(language) == OrElse(Lookup(frameworkMap, ToText(language)), Str(<<"j", "e", "s", "t">>))

frameworkDeps ==
    <<<<<<"j", "e", "s", "t">>, <<<<"j", "e", "s", "t">>, <<"@", "t", "y", "p", "e", "s", "/", "j", "e", "s", "t">>>>>>, <<<<"m", "o", "c", "h", "a">>, <<<<"m", "o", "c", "h", "a">>, <<"c", "h", "a", "i">>>>>>,
      <<<<"p", "y", "t", "e", "s", "t">>, <<<<"p", "y", "t", "e", "s", "t">>>>>>, <<<<"j", "u", "n", "i", "t">>, <<<<"j", "u", "n", "i", "t">>>>>>, <<<<"n", "u", "n", "i", "t">>, <<<<"N", "U", "n", "i", "t">>>>>>,
      <<<<"p", "h", "p", "u", "n", "i", "t">>, <<<<"p", "h", "p", "u", "n", "i", "t", "/", "p", "h", "p", "u", "n", "i", "t">>>>>>, <<<<"r", "s", "p", "e", "c">>, <<<<"r", "s", "p", "e", "c">>>>>>>>

\* A variant of the dependency table that lists nothing for any framework.
NoDependencies(framework) == Arr(<<>>)

\* An array of strings
Strings(list) == Arr([k \in 1..Len(list) |-> Str(list[k])])

\* deps[key] || []
DependenciesOf(key) ==
    IF TableHas(frameworkDeps, key) THEN Strings(TableAt(frameworkDeps, key))
    ELSE IF key \in InheritedKeys THEN Inherited(key)
    ELSE Arr(<<>>)

\* deps[framework] || []: the dependency list, an array of strings.
getFrameworkDependencies(framework) == DependenciesOf(ToText(framework))

----------------------------------------------------------------------------
(* GeminiService: code templates *)

\* path.replace(/\.[^/.]+$/, ''): the last dot and what follows it are removed
\* when something follows it and no slash does.
StripFrom(path, dot) ==
    IF dot = 0 \/ dot = Len(path) \/ FirstAt(path, dot, "/") # 0 THEN path
    ELSE Slice(path, 1, dot - 1)
StripExtension(path) == StripFrom(path, LastOf(path, "."))

\* path.replace(/\.py$/, '').replace(/\//g, '.')
Dotted(p) == [k \in 1..Len(p) |-> IF p[k] = "/" THEN "." ELSE p[k]]
PythonModule(path) ==
    Dotted(IF Len(path) >= 3 /\ StartsWith(path, Len(path) - 2, <<".", "p", "y">>)
           THEN Slice(path, 1, Len(path) - 3) ELSE path)

\* file.name || file.path (an absent name is the empty sequence)
NameOrPath(file) == IF file.name # <<>> THEN file.name ELSE file.path

\* A template literal: its fixed parts with the interpolated texts between them.
RECURSIVE Filled(_, _, _)
Filled(parts, holes, k) ==
    IF k > Len(holes) THEN parts[k] ELSE parts[k] \o holes[k] \o Filled(parts, holes, k + 1)

JestFunctionText ==
    <<<<"c", "o", "n", "s", "t", " ", "{", " ">>,
      <<" ", "}", " ", "=", " ", "r", "e", "q", "u", "i", "r", "e", "(", "'", ".", "/">>,
      <<"'", ")", ";", "\n", "\n", "d", "e", "s", "c", "r", "i", "b", "e", "(", "'">>,
      <<"'", ",", " ", "(", ")", " ", "=", ">", " ", "{", "\n", " ", " ", "t", "e", "s", "t", "(", "'", "s",
        "h", "o", "u", "l", "d", " ", "e", "x", "e", "c", "u", "t", "e", " ", "w", "i", "t", "h", "o", "u",
        "t", " ", "e", "r", "r", "o", "r", "s", "'", ",", " ", "(", ")", " ", "=", ">", " ", "{", "\n", " ",
        " ", " ", " ", "/", "/", " ", "T", "e", "s", "t", " ", "b", "a", "s", "i", "c", " ", "f", "u", "n",
        "c", "t", "i", "o", "n", "a", "l", "i", "t", "y", "\n", " ", " ", " ", " ", "e", "x", "p", "e", "c",
        "t", "(", "t", "y", "p", "e", "o", "f", " ">>,
      <<")", ".", "t", "o", "B", "e", "(", "'", "f", "u", "n", "c", "t", "i", "o", "n", "'", ")", ";", "\n",
        " ", " ", "}", ")", ";", "\n", "\n", " ", " ", "t", "e", "s", "t", "(", "'", "s", "h", "o", "u", "l",
        "d", " ", "h", "a", "n", "d", "l", "e", " ", "v", "a", "l", "i", "d", " ", "i", "n", "p", "u", "t",
        "s", "'", ",", " ", "(", ")", " ", "=", ">", " ", "{", "\n", " ", " ", " ", " ", "/", "/", " ", "T",
        "O", "D", "O", ":", " ", "A", "d", "d", " ", "t", "e", "s", "t", " ", "w", "i", "t", "h", " ", "v",
        "a", "l", "i", "d", " ", "i", "n", "p", "u", "t", "s", "\n", " ", " ", " ", " ", "/", "/", " ", "c",
        "o", "n", "s", "t", " ", "r", "e", "s", "u", "l", "t", " ", "=", " ">>,
      <<"(", "/", "*", " ", "v", "a", "l", "i", "d", " ", "p", "a", "r", "a", "m", "s", " ", "*", "/", ")",
        ";", "\n", " ", " ", " ", " ", "/", "/", " ", "e", "x", "p", "e", "c", "t", "(", "r", "e", "s", "u",
        "l", "t", ")", ".", "t", "o", "B", "e", "D", "e", "f", "i", "n", "e", "d", "(", ")", ";", "\n", " ",
        " ", "}", ")", ";", "\n", "\n", " ", " ", "t", "e", "s", "t", "(", "'", "s", "h", "o", "u", "l", "d",
        " ", "h", "a", "n", "d", "l", "e", " ", "e", "d", "g", "e", " ", "c", "a", "s", "e", "s", "'", ",",
        " ", "(", ")", " ", "=", ">", " ", "{", "\n", " ", " ", " ", " ", "/", "/", " ", "T", "O", "D", "O",
        ":", " ", "A", "d", "d", " ", "e", "d", "g", "e", " ", "c", "a", "s", "e", " ", "t", "e", "s", "t",
        "s", "\n", " ", " ", " ", " ", "/", "/", " ", "e", "x", "p", "e", "c", "t", "(", "(", ")", " ", "=",
        ">", " ">>,
      <<"(", "n", "u", "l", "l", ")", ")", ".", "t", "o", "T", "h", "r", "o", "w", "(", ")", ";", "\n", " ",
        " ", "}", ")", ";", "\n", "}", ")", ";">>>>

PytestFunctionText ==
    <<<<"f", "r", "o", "m", " ">>,
      <<" ", "i", "m", "p", "o", "r", "t", " ">>,
      <<"\n", "\n", "d", "e", "f", " ", "t", "e", "s", "t", "_">>,
      <<"_", "b", "a", "s", "i", "c", "(", ")", ":", "\n", " ", " ", " ", " ", "\"", "\"", "\"", "T", "e", "s",
        "t", " ", "b", "a", "s", "i", "c", " ", "f", "u", "n", "c", "t", "i", "o", "n", "a", "l", "i", "t",
        "y", " ", "o", "f", " ">>,
      <<"\"", "\"", "\"", "\n", " ", " ", " ", " ", "#", " ", "T", "O", "D", "O", ":", " ", "I", "m", "p", "l",
        "e", "m", "e", "n", "t", " ", "t", "e", "s", "t", "\n", " ", " ", " ", " ", "a", "s", "s", "e", "r",
        "t", " ", "c", "a", "l", "l", "a", "b", "l", "e", "(">>,
      <<")", "\n", "\n", "d", "e", "f", " ", "t", "e", "s", "t", "_">>,
      <<"_", "v", "a", "l", "i", "d", "_", "i", "n", "p", "u", "t", "(", ")", ":", "\n", " ", " ", " ", " ",
        "\"", "\"", "\"", "T", "e", "s", "t", " ">>,
      <<" ", "w", "i", "t", "h", " ", "v", "a", "l", "i", "d", " ", "i", "n", "p", "u", "t", "s", "\"", "\"",
        "\"", "\n", " ", " ", " ", " ", "#", " ", "T", "O", "D", "O", ":", " ", "A", "d", "d", " ", "t", "e",
        "s", "t", " ", "w", "i", "t", "h", " ", "v", "a", "l", "i", "d", " ", "i", "n", "p", "u", "t", "s",
        "\n", " ", " ", " ", " ", "#", " ", "r", "e", "s", "u", "l", "t", " ", "=", " ">>,
      <<"(", "v", "a", "l", "i", "d", "_", "p", "a", "r", "a", "m", ")", "\n", " ", " ", " ", " ", "#", " ",
        "a", "s", "s", "e", "r", "t", " ", "r", "e", "s", "u", "l", "t", " ", "i", "s", " ", "n", "o", "t",
        " ", "N", "o", "n", "e", "\n", "\n", "d", "e", "f", " ", "t", "e", "s", "t", "_">>,
      <<"_", "e", "d", "g", "e", "_", "c", "a", "s", "e", "s", "(", ")", ":", "\n", " ", " ", " ", " ", "\"",
        "\"", "\"", "T", "e", "s", "t", " ">>,
      <<" ", "e", "d", "g", "e", " ", "c", "a", "s", "e", "s", "\"", "\"", "\"", "\n", " ", " ", " ", " ", "#",
        " ", "T", "O", "D", "O", ":", " ", "A", "d", "d", " ", "e", "d", "g", "e", " ", "c", "a", "s", "e",
        " ", "t", "e", "s", "t", "s", "\n", " ", " ", " ", " ", "p", "a", "s", "s">>>>

JestModuleText ==
    <<<<"d", "e", "s", "c", "r", "i", "b", "e", "(", "'">>,
      <<"'", ",", " ", "(", ")", " ", "=", ">", " ", "{", "\n", " ", " ", "t", "e", "s", "t", "(", "'", "s",
        "h", "o", "u", "l", "d", " ", "l", "o", "a", "d", " ", "m", "o", "d", "u", "l", "e", " ", "w", "i",
        "t", "h", "o", "u", "t", " ", "e", "r", "r", "o", "r", "s", "'", ",", " ", "(", ")", " ", "=", ">",
        " ", "{", "\n", " ", " ", " ", " ", "/", "/", " ", "T", "e", "s", "t", " ", "m", "o", "d", "u", "l",
        "e", " ", "l", "o", "a", "d", "i", "n", "g", "\n", " ", " ", " ", " ", "e", "x", "p", "e", "c", "t",
        "(", "(", ")", " ", "=", ">", " ", "r", "e", "q", "u", "i", "r", "e", "(", "'", ".", "/">>,
      <<"'", ")", ")", ".", "n", "o", "t", ".", "t", "o", "T", "h", "r", "o", "w", "(", ")", ";", "\n", " ",
        " ", "}", ")", ";", "\n", "\n", " ", " ", "t", "e", "s", "t", "(", "'", "s", "h", "o", "u", "l", "d",
        " ", "e", "x", "p", "o", "r", "t", " ", "e", "x", "p", "e", "c", "t", "e", "d", " ", "f", "u", "n",
        "c", "t", "i", "o", "n", "s", "/", "o", "b", "j", "e", "c", "t", "s", "'", ",", " ", "(", ")", " ",
        "=", ">", " ", "{", "\n", " ", " ", " ", " ", "c", "o", "n", "s", "t", " ", "m", "o", "d", "u", "l",
        "e", " ", "=", " ", "r", "e", "q", "u", "i", "r", "e", "(", "'", ".", "/">>,
      <<"'", ")", ";", "\n", " ", " ", " ", " ", "e", "x", "p", "e", "c", "t", "(", "m", "o", "d", "u", "l",
        "e", ")", ".", "t", "o", "B", "e", "D", "e", "f", "i", "n", "e", "d", "(", ")", ";", "\n", " ", " ",
        " ", " ", "/", "/", " ", "T", "O", "D", "O", ":", " ", "A", "d", "d", " ", "s", "p", "e", "c", "i",
        "f", "i", "c", " ", "e", "x", "p", "o", "r", "t", " ", "c", "h", "e", "c", "k", "s", "\n", " ", " ",
        "}", ")", ";", "\n", "\n", " ", " ", "t", "e", "s", "t", "(", "'", "s", "h", "o", "u", "l", "d", " ",
        "h", "a", "n", "d", "l", "e", " ", "b", "a", "s", "i", "c", " ", "o", "p", "e", "r", "a", "t", "i",
        "o", "n", "s", "'", ",", " ", "(", ")", " ", "=", ">", " ", "{", "\n", " ", " ", " ", " ", "/", "/",
        " ", "T", "O", "D", "O", ":", " ", "I", "m", "p", "l", "e", "m", "e", "n", "t", " ", "s", "p", "e",
        "c", "i", "f", "i", "c", " ", "f", "u", "n", "c", "t", "i", "o", "n", "a", "l", "i", "t", "y", " ",
        "t", "e", "s", "t", "s", "\n", " ", " ", " ", " ", "e", "x", "p", "e", "c", "t", "(", "t", "r", "u",
        "e", ")", ".", "t", "o", "B", "e", "(", "t", "r", "u", "e", ")", ";", "\n", " ", " ", "}", ")", ";",
        "\n", "}", ")", ";">>>>

PytestModuleText ==
    <<<<"i", "m", "p", "o", "r", "t", " ", "p", "y", "t", "e", "s", "t", "\n", "f", "r", "o", "m", " ">>,
      <<" ", "i", "m", "p", "o", "r", "t", " ", "*", "\n", "\n", "d", "e", "f", " ", "t", "e", "s", "t", "_",
        "m", "o", "d", "u", "l", "e", "_", "i", "m", "p", "o", "r", "t", "s", "(", ")", ":", "\n", " ", " ",
        " ", " ", "\"", "\"", "\"", "T", "e", "s", "t", " ", "t", "h", "a", "t", " ", "m", "o", "d", "u", "l",
        "e", " ", "i", "m", "p", "o", "r", "t", "s", " ", "w", "i", "t", "h", "o", "u", "t", " ", "e", "r",
        "r", "o", "r", "s", "\"", "\"", "\"", "\n", " ", " ", " ", " ", "#", " ", "M", "o", "d", "u", "l", "e",
        " ", "s", "h", "o", "u", "l", "d", " ", "i", "m", "p", "o", "r", "t", " ", "s", "u", "c", "c", "e",
        "s", "s", "f", "u", "l", "l", "y", "\n", " ", " ", " ", " ", "a", "s", "s", "e", "r", "t", " ", "T",
        "r", "u", "e", "\n", "\n", "d", "e", "f", " ", "t", "e", "s", "t", "_", "b", "a", "s", "i", "c", "_",
        "f", "u", "n", "c", "t", "i", "o", "n", "a", "l", "i", "t", "y", "(", ")", ":", "\n", " ", " ", " ",
        " ", "\"", "\"", "\"", "T", "e", "s", "t", " ", "b", "a", "s", "i", "c", " ", "m", "o", "d", "u", "l",
        "e", " ", "f", "u", "n", "c", "t", "i", "o", "n", "a", "l", "i", "t", "y", "\"", "\"", "\"", "\n", " ",
        " ", " ", " ", "#", " ", "T", "O", "D", "O", ":", " ", "I", "m", "p", "l", "e", "m", "e", "n", "t",
        " ", "s", "p", "e", "c", "i", "f", "i", "c", " ", "t", "e", "s", "t", "s", "\n", " ", " ", " ", " ",
        "a", "s", "s", "e", "r", "t", " ", "T", "r", "u", "e", "\n", "\n", "d", "e", "f", " ", "t", "e", "s",
        "t", "_", "e", "d", "g", "e", "_", "c", "a", "s", "e", "s", "(", ")", ":", "\n", " ", " ", " ", " ",
        "\"", "\"", "\"", "T", "e", "s", "t", " ", "e", "d", "g", "e", " ", "c", "a", "s", "e", "s", " ", "a",
        "n", "d", " ", "e", "r", "r", "o", "r", " ", "h", "a", "n", "d", "l", "i", "n", "g", "\"", "\"", "\"",
        "\n", " ", " ", " ", " ", "#", " ", "T", "O", "D", "O", ":", " ", "A", "d", "d", " ", "e", "d", "g",
        "e", " ", "c", "a", "s", "e", " ", "t", "e", "s", "t", "s", "\n", " ", " ", " ", " ", "p", "a", "s",
        "s">>>>

\* The number of parameters of the function behind an inherited member
Arity(name) ==
    CASE name \in {<<"t", "o", "L", "o", "c", "a", "l", "e", "S", "t", "r", "i", "n", "g">>, <<"t", "o", "S", "t", "r", "i", "n", "g">>, <<"v", "a", "l", "u", "e", "O", "f">>} -> 0
      [] name \in {<<"_", "_", "d", "e", "f", "i", "n", "e", "G", "e", "t", "t", "e", "r", "_", "_">>, <<"_", "_", "d", "e", "f", "i", "n", "e", "S", "e", "t", "t", "e", "r", "_", "_">>} -> 2
      [] OTHER -> 1

\* The functions that the function Object holds as members of its own
ObjectStatics ==
    {<<"a", "s", "s", "i", "g", "n">>, <<"c", "r", "e", "a", "t", "e">>, <<"d", "e", "f", "i", "n", "e", "P", "r", "o", "p", "e", "r", "t", "i", "e", "s">>, <<"d", "e", "f", "i", "n", "e", "P", "r", "o", "p", "e", "r", "t", "y">>, <<"e", "n", "t", "r", "i", "e", "s">>, <<"f", "r", "e", "e", "z", "e">>,
     <<"f", "r", "o", "m", "E", "n", "t", "r", "i", "e", "s">>, <<"g", "e", "t", "O", "w", "n", "P", "r", "o", "p", "e", "r", "t", "y", "D", "e", "s", "c", "r", "i", "p", "t", "o", "r">>, <<"g", "e", "t", "O", "w", "n", "P", "r", "o", "p", "e", "r", "t", "y", "D", "e", "s", "c", "r", "i",
        "p", "t", "o", "r", "s">>,
     <<"g", "e", "t", "O", "w", "n", "P", "r", "o", "p", "e", "r", "t", "y", "N", "a", "m", "e", "s">>, <<"g", "e", "t", "O", "w", "n", "P", "r", "o", "p", "e", "r", "t", "y", "S", "y", "m", "b", "o", "l", "s">>, <<"g", "e", "t", "P", "r", "o", "t", "o", "t", "y", "p", "e", "O", "f">>, <<"h", "a", "s", "O", "w", "n">>, <<"i", "s">>,
     <<"i", "s", "E", "x", "t", "e", "n", "s", "i", "b", "l", "e">>, <<"i", "s", "F", "r", "o", "z", "e", "n">>, <<"i", "s", "S", "e", "a", "l", "e", "d">>, <<"k", "e", "y", "s">>, <<"p", "r", "e", "v", "e", "n", "t", "E", "x", "t", "e", "n", "s", "i", "o", "n", "s">>, <<"s", "e", "a", "l">>,
     <<"s", "e", "t", "P", "r", "o", "t", "o", "t", "y", "p", "e", "O", "f">>, <<"v", "a", "l", "u", "e", "s">>}

NotThrown(v) == [threw |-> FALSE, v |-> v]
Thrown == [threw |-> TRUE, v |-> Undefined]

\* fn[key] for the native function of that name: [threw, v].  The getters of
\* caller and arguments throw a TypeError.
FunctionMember(name, key) ==
    CASE key = <<"n", "a", "m", "e">> -> NotThrown(Str(name))
      [] key = <<"l", "e", "n", "g", "t", "h">> -> NotThrown(Num(Arity(name)))
      [] key \in {<<"c", "a", "l", "l", "e", "r">>, <<"a", "r", "g", "u", "m", "e", "n", "t", "s">>} -> Thrown
      [] key = <<"p", "r", "o", "t", "o", "t", "y", "p", "e">> ->
            NotThrown(IF name = <<"O", "b", "j", "e", "c", "t">> THEN ObjectPrototype ELSE Undefined)
      [] key = <<"c", "o", "n", "s", "t", "r", "u", "c", "t", "o", "r">> -> NotThrown(Fn(<<"F", "u", "n", "c", "t", "i", "o", "n">>))
      [] key = <<"_", "_", "p", "r", "o", "t", "o", "_", "_">> -> NotThrown(FunctionPrototype)
      [] key \in {<<"a", "p", "p", "l", "y">>, <<"b", "i", "n", "d">>, <<"c", "a", "l", "l">>, <<"t", "o", "S", "t", "r", "i", "n", "g">>} -> NotThrown(Fn(key))
      [] name = <<"O", "b", "j", "e", "c", "t">> /\ key \in ObjectStatics -> NotThrown(Fn(key))
      [] key \in InheritedKeys -> NotThrown(Inherited(key))
      [] OTHER -> NotThrown(Undefined)

\* member[key] for a member that the templates object inherits
InheritedMember(member, key) ==
    IF member.t = "function" THEN FunctionMember(member.name, key)
    ELSE IF key = <<"_", "_", "p", "r", "o", "t", "o", "_", "_">> THEN NotThrown(Null)
    ELSE NotThrown(IF key \in InheritedKeys THEN Inherited(key) ELSE Undefined)

\* templates[language]?.[framework] for templates = {javascript: {jest}, python:
\* {pytest}}, by the keys of the language and the framework: [threw, v].
TemplateOf(language, framework, jest, pytest) ==
    IF language = <<"j", "a", "v", "a", "s", "c", "r", "i", "p", "t">> THEN NotThrown(Lookup(<<<<<<"j", "e", "s", "t">>, jest>>>>, framework))
    ELSE IF language = <<"p", "y", "t", "h", "o", "n">> THEN NotThrown(Lookup(<<<<<<"p", "y", "t", "e", "s", "t">>, pytest>>>>, framework))
    ELSE IF language \in InheritedKeys THEN InheritedMember(Inherited(language), framework)
    ELSE NotThrown(Undefined)

\* template || todo, where the text of the todo line is made only when the
\* template is falsy, and making it may throw.
OrTodo(template, todoThrows, todo) ==
    IF template.threw THEN Thrown
    ELSE IF Truthy(template.v) THEN template
    ELSE IF todoThrows THEN Thrown
    ELSE NotThrown(Str(todo))

\* [threw, v], for language, framework and type any values and file a file
\* record.
generateTemplateCode(language, framework, type, file) ==
    IF TextThrows(language) \/ TextThrows(framework) THEN Thrown
    ELSE OrTodo(TemplateOf(ToText(language), ToText(framework),
                           Filled(JestModuleText,
                                  <<NameOrPath(file), StripExtension(file.path),
                                    StripExtension(file.path)>>, 1),
                           Filled(PytestModuleText, <<PythonModule(file.path)>>, 1)),
                TextThrows(type),
                <<"/", "/", " ", "T", "O", "D", "O", ":", " ", "I", "m", "p", "l", "e", "m", "e", "n", "t", " ">> \o ToText(type) \o <<" ", "t", "e", "s", "t", " ", "f", "o", "r", " ">> \o file.path
                \o <<"\n", "/", "/", " ", "F", "r", "a", "m", "e", "w", "o", "r", "k", ":", " ">> \o ToText(framework) \o <<"\n", "/", "/", " ", "L", "a", "n", "g", "u", "a", "g", "e", ":", " ">>
                \o ToText(language))

\* templates[language] is an object, of the literal or inherited; when it is
\* not, ?. leaves the framework unread.
HasTemplates(language) == language \in {<<"j", "a", "v", "a", "s", "c", "r", "i", "p", "t">>, <<"p", "y", "t", "h", "o", "n">>} \cup InheritedKeys

FunctionTemplate(language, framework, func, file) ==
    IF ~HasTemplates(language) THEN NotThrown(Undefined)
    ELSE IF TextThrows(framework) THEN Thrown
    ELSE TemplateOf(language, ToText(framework),
                    Filled(JestFunctionText,
                           <<func.name, StripExtension(file.path), func.name, func.name,
                             func.name, func.name>>, 1),
                    Filled(PytestFunctionText,
                           <<PythonModule(file.path)>> \o Repeat(func.name, 9), 1))

\* [threw, v].  The todo line names the type, the function and the path only.
generateFunctionTestCode(language, framework, type, func, file) ==
    IF TextThrows(language) THEN Thrown
    ELSE OrTodo(FunctionTemplate(ToText(language), framework, func, file),
                TextThrows(type),
                <<"/", "/", " ", "T", "O", "D", "O", ":", " ", "I", "m", "p", "l", "e", "m", "e", "n", "t", " ">> \o ToText(type) \o <<" ", "t", "e", "s", "t", " ", "f", "o", "r", " ">> \o func.name
                \o <<" ", "f", "u", "n", "c", "t", "i", "o", "n", " ", "i", "n", " ">> \o file.path)

----------------------------------------------------------------------------
(* GeminiService.extractFunctionName *)

\* The class ['"`]
QuoteMarks == {"'", QUOTE, BQ}

NoMatch == [ok |-> FALSE, v |-> <<>>]
Match(v) == [ok |-> TRUE, v |-> v]

\* The identifier [a-zA-Z_][a-zA-Z0-9_]* that starts at position p, as long as it
\* can be; none when no identifier starts there.
IsIdentStart(s, p) == p >= 1 /\ p <= Len(s) /\ s[p] \in IdentStarts
IdentEnd(s, p) == SkipAll(s, p, WordChars) - 1
IdentAt(s, p) == IF IsIdentStart(s, p) THEN Match(Slice(s, p, IdentEnd(s, p))) ELSE NoMatch

\* ([^'"`]+)['"`] at position p, with k the first quote mark from p on
QuotedTo(s, p, k) == IF k > p THEN Match(Slice(s, p, k - 1)) ELSE NoMatch

\* /kw\(['"`]([^'"`]+)['"`]/ at position i: [ok, v].
QuotedAfter(s, i, kw) ==
    IF StartsWith(s, i, kw \o <<"(">>) /\ i + Len(kw) + 1 <= Len(s)
       /\ s[i + Len(kw) + 1] \in QuoteMarks
    THEN QuotedTo(s, i + Len(kw) + 2,
                  FirstWhere(s, i + Len(kw) + 2, Len(s), QuoteMarks, TRUE))
    ELSE NoMatch

\* /def\s+test_([a-zA-Z_][a-zA-Z0-9_]*)/ at position i, with j the end of the
\* white space after def
DefTestTo(s, i, j) ==
    IF j > i + 3 /\ StartsWith(s, j, <<"t", "e", "s", "t", "_">>) THEN IdentAt(s, j + 5) ELSE NoMatch
DefTestAt(s, i) == IF StartsWith(s, i, <<"d", "e", "f">>) THEN DefTestTo(s, i, SkipWs(s, i + 3)) ELSE NoMatch

\* /@Test[^a-zA-Z]*([a-zA-Z_][a-zA-Z0-9_]*)/ at position i: the name starts at
\* the first letter after the annotation (p is the position after the
\* annotation, l that of the letter); when no letter follows, at the last
\* underscore.
AtTestTo(s, p, l) ==
    IF l # 0 THEN IdentAt(s, l) ELSE IdentAt(s, LastWhere(s, p, Len(s), {"_"}, TRUE))
AtTestAt(s, i) ==
    IF StartsWith(s, i, <<"@", "T", "e", "s", "t">>)
    THEN AtTestTo(s, i + 5, FirstWhere(s, i + 5, Len(s), Letters, TRUE))
    ELSE NoMatch

\* The five patterns, in the order of the source.
NamePatternAt(n, s, i) ==
    CASE n = 1 -> QuotedAfter(s, i, <<"d", "e", "s", "c", "r", "i", "b", "e">>)
      [] n = 2 -> QuotedAfter(s, i, <<"t", "e", "s", "t">>)
      [] n = 3 -> QuotedAfter(s, i, <<"i", "t">>)
      [] n = 4 -> DefTestAt(s, i)
      [] OTHER -> AtTestAt(s, i)

NamePatterns == 1..5

\* code.match(pattern): the leftmost match of pattern n, among the positions at
\* where it matches.
NameMatchAmong(n, s, at) == IF at = {} THEN NoMatch ELSE NamePatternAt(n, s, Least(at))
NameMatch(n, s) == NameMatchAmong(n, s, {i \in 1..Len(s) : NamePatternAt(n, s, i).ok})

\* for (const pattern of patterns): the capture of the first pattern among hit,
\* those that match.
FirstNameMatch(s, hit) ==
    IF hit = {} THEN NotThrown(Null) ELSE NotThrown(Str(NameMatch(Least(hit), s).v))

\* [threw, v]: null for a falsy code, a TypeError for a truthy code that is no
\* string (it has no match method), else the capture of the first pattern that
\* matches, or null.
extractFunctionName(code) ==
    IF ~Truthy(code) THEN NotThrown(Null)
    ELSE IF code.t # "str" THEN Thrown
    ELSE FirstNameMatch(code.s, {n \in NamePatterns : NameMatch(n, code.s).ok})

----------------------------------------------------------------------------
(* GeminiService.parseTestCasesResponse *)

\* A variant of the fenced-block match that recognises no block.
NoBlockAt(s, i) == NoMatch

\* (\{[\s\S]*?\})\s*<fence> for a block that opens at j: it runs to the first "}"
\* that white space and a fence follow.
BlockTo(s, j, closers) == IF closers = {} THEN NoMatch ELSE Match(Slice(s, j, Least(closers)))
BlockFrom(s, j) ==
    IF j <= Len(s) /\ s[j] = "{"
    THEN BlockTo(s, j, {k \in (j + 1)..Len(s) :
                           s[k] = "}" /\ StartsWith(s, SkipWs(s, k + 1), FENCE)})
    ELSE NoMatch

\* text.match(/<fence>(?:json)?\s*(\{[\s\S]*?\})\s*<fence>/) at position i: a fence,
\* an optional json tag, white space and the block.  [ok, v].
BlockAt(s, i) ==
    IF StartsWith(s, i, FENCE)
    THEN BlockFrom(s, SkipWs(s, IF StartsWith(s, i + 3, <<"j", "s", "o", "n">>) THEN i + 7 ELSE i + 3))
    ELSE NoMatch

\* The leftmost match
BlockAmong(s, at) == IF at = {} THEN NoMatch ELSE BlockAt(s, Least(at))
CodeBlockMatch(s) == BlockAmong(s, {i \in 1..Len(s) : BlockAt(s, i).ok})

\* text.match(/\{[\s\S]*"testCases"[\s\S]*\}/): from the first "{" to the last
\* "}", when the quoted key stands between them.  [ok, v].
JsonMatchIn(s, open, close) ==
    IF open > 0 /\ (\E p \in (open + 1)..(close - 11) : StartsWith(s, p, <<"\"", "t", "e", "s", "t", "C", "a", "s", "e", "s", "\"">>))
    THEN Match(Slice(s, open, close))
    ELSE NoMatch
JsonMatch(s) == JsonMatchIn(s, FirstAt(s, 1, "{"), LastOf(s, "}"))

\* config.types?.[0]: the first element of an array, the first character of a
\* string, the member 0 of an object, undefined otherwise.
FirstType(cfg) ==
    CASE cfg.types.t = "arr" ->
            IF cfg.types.a = <<>> THEN Undefined ELSE cfg.types.a[1]
      [] cfg.types.t = "str" ->
            IF cfg.types.s = <<>> THEN Undefined ELSE Str(<<cfg.types.s[1]>>)
      [] cfg.types.t = "obj" -> Get(cfg.types, <<"0">>)
      [] OTHER -> Undefined

\* files[0]?.path || ''
FirstPath(fs) == IF fs = <<>> THEN <<>> ELSE fs[1].path

\* files[0], for a list that has one
NoFile == [path |-> <<>>, name |-> <<>>, content |-> <<>>]
FirstFile(fs) == IF fs = <<>> THEN NoFile ELSE fs[1]

\* text.substring(0, n) + '...'
Preview(s, n) == Slice(s, 1, Min(n, Len(s))) \o <<".", ".", ".">>

\* new Date().toISOString() for a time in milliseconds since the epoch.  The
\* integers of TLC end in January 1970, so the day of the month is the only
\* part of the date that moves.
Padded(n, width) == Repeat("0", width - Len(DigitsOf(n))) \o DigitsOf(n)
IsoText(now) ==
    <<"1", "9", "7", "0", "-", "0", "1", "-">> \o Padded((now \div 86400000) + 1, 2) \o <<"T">>
    \o Padded((now \div 3600000) % 24, 2) \o <<":">> \o Padded((now \div 60000) % 60, 2) \o <<":">>
    \o Padded((now \div 1000) % 60, 2) \o <<".">> \o Padded(now % 1000, 3) \o <<"Z">>
IsoTime(now) == Str(IsoText(now))

\* One entry of parsed.testCases.map: [threw, v].  Reading a property of a null
\* entry, extractFunctionName of a code that is no string, and the template for
\* an absent first file throw a TypeError.  language is that of the first file,
\* fn what extractFunctionName gives for the entry's code, template what
\* generateTemplateCode gives.
NormalizedEntry(tc, index, s, fs, cfg, now, language, fn, template) ==
    IF \/ Nullish(tc)
       \/ (~Truthy(Get(tc, <<"f", "u", "n", "c", "t", "i", "o", "n">>)) /\ fn.threw)
       \/ (~Truthy(Get(tc, <<"c", "o", "d", "e">>)) /\ (fs = <<>> \/ template.threw))
    THEN Thrown
    ELSE NotThrown(
        [id |-> OrElse(Get(tc, <<"i", "d">>), Str(<<"a", "i", "_">> \o DigitsOf(now) \o <<"_">> \o DigitsOf(index))),
         title |-> OrElse(Get(tc, <<"t", "i", "t", "l", "e">>), Str(<<"T", "e", "s", "t", " ", "C", "a", "s", "e", " ">> \o DigitsOf(index + 1))),
         description |-> OrElse(Get(tc, <<"d", "e", "s", "c", "r", "i", "p", "t", "i", "o", "n">>), Str(<<"A", "I", " ", "g", "e", "n", "e", "r", "a", "t", "e", "d", " ", "t", "e", "s", "t", " ", "c", "a", "s", "e">>)),
         type |-> OrElse(Get(tc, <<"t", "y", "p", "e">>), OrElse(FirstType(cfg), Str(<<"u", "n", "i", "t">>))),
         priority |-> OrElse(Get(tc, <<"p", "r", "i", "o", "r", "i", "t", "y">>), Str(<<"m", "e", "d", "i", "u", "m">>)),
         file |-> OrElse(Get(tc, <<"f", "i", "l", "e">>), OrElse(Str(FirstPath(fs)), Str(<<"u", "n", "k", "n", "o", "w", "n">>))),
         function |-> IF Truthy(Get(tc, <<"f", "u", "n", "c", "t", "i", "o", "n">>)) THEN Get(tc, <<"f", "u", "n", "c", "t", "i", "o", "n">>) ELSE fn.v,
         code |-> IF Truthy(Get(tc, <<"c", "o", "d", "e">>)) THEN Get(tc, <<"c", "o", "d", "e">>) ELSE template.v,
         setup |-> OrElse(Get(tc, <<"s", "e", "t", "u", "p">>), Null),
         teardown |-> OrElse(Get(tc, <<"t", "e", "a", "r", "d", "o", "w", "n">>), Null),
         dependencies |-> OrElse(Get(tc, <<"d", "e", "p", "e", "n", "d", "e", "n", "c", "i", "e", "s">>),
                                 getFrameworkDependencies(getDefaultFramework(language))),
         tags |-> OrElse(Get(tc, <<"t", "a", "g", "s">>), Arr(<<language>>)),
         generatedBy |-> Str(<<"g", "e", "m", "i", "n", "i", "-", "a", "i">>),
         createdAt |-> IsoTime(now),
         aiResponse |-> Str(Preview(s, 100))])

NormalizeEntryIn(tc, index, s, fs, cfg, now, language) ==
    NormalizedEntry(tc, index, s, fs, cfg, now, language,
                    extractFunctionName(Get(tc, <<"c", "o", "d", "e">>)),
                    generateTemplateCode(language, getDefaultFramework(language),
                                         OrElse(Get(tc, <<"t", "y", "p", "e">>), Str(<<"u", "n", "i", "t">>)), FirstFile(fs)))

NormalizeEntry(tc, index, s, fs, cfg, now) ==
    NormalizeEntryIn(tc, index, s, fs, cfg, now, detectLanguage(FirstPath(fs)))

\* Strategy 2, in the catch block of strategy 1: the parse of the fenced
\* content; its SyntaxError leaves the function's outer try.
BlockParsed(inner) ==
    IF inner.ok THEN [threw |-> FALSE, v |-> inner.v, by |-> "block"]
    ELSE [threw |-> TRUE, v |-> Null, by |-> "none"]

\* Strategies 1 and 2, given the direct parse and the fenced-block match.
FirstTwo(direct, block) ==
    IF direct.ok THEN [threw |-> FALSE, v |-> direct.v, by |-> "direct"]
    ELSE IF ~block.ok THEN [threw |-> FALSE, v |-> Null, by |-> "none"]
    ELSE BlockParsed(JSONparse(block.v))

\* [threw, v, by]
DirectOrBlock(s) == FirstTwo(JSONparse(Trim(s)), CodeBlockMatch(s))

\* A variant of strategy 3 that leaves the embedded object unread.
ScanIgnored(found) == [threw |-> FALSE, v |-> Null, by |-> "none"]

ScanParsed(found) ==
    IF found.ok THEN [threw |-> FALSE, v |-> found.v, by |-> "scan"]
    ELSE [threw |-> TRUE, v |-> Null, by |-> "none"]

\* Strategy 3, tried when strategies 1 and 2 left a falsy value.
ThirdStrategy(first, scan) ==
    IF first.threw \/ Truthy(first.v) \/ ~scan.ok THEN first
    ELSE ScanParsed(JSONparse(scan.v))

ParsedDocument(s) == ThirdStrategy(DirectOrBlock(s), JsonMatch(s))

\* The try block of parseTestCasesResponse: [ok, cases, by, error].  ok = FALSE
\* stands for an exception reaching the catch block, error for its message.
Caught(error) == [ok |-> FALSE, cases |-> <<>>, by |-> "none", error |-> error]

AttemptEntries(out, by) ==
    IF \E k \in 1..Len(out) : out[k].threw THEN Caught("TypeError")
    ELSE [ok |-> TRUE, cases |-> [k \in 1..Len(out) |-> out[k].v], by |-> by, error |-> ""]

AttemptList(doc, list, s, fs, cfg, now) ==
    IF ~(Truthy(doc.v) /\ Truthy(list) /\ list.t = "arr") THEN Caught("Invalid response format")
    ELSE AttemptEntries([k \in 1..Len(list.a) |->
                            NormalizeEntry(list.a[k], k - 1, s, fs, cfg, now)], doc.by)

AttemptDocument(doc, s, fs, cfg, now) ==
    IF doc.threw THEN Caught("SyntaxError")
    ELSE AttemptList(doc, Get(doc.v, <<"t", "e", "s", "t", "C", "a", "s", "e", "s">>), s, fs, cfg, now)

ParseAttempt(s, fs, cfg, now) == AttemptDocument(ParsedDocument(s), s, fs, cfg, now)

----------------------------------------------------------------------------
(* GeminiService.extractFunctionsFromCode *)

\* One match of a signature pattern starting at position i: [ok, name, end].
NoSig == [ok |-> FALSE, name |-> <<>>, end |-> 0]
Sig(name, end) == [ok |-> TRUE, name |-> name, end |-> end]

\* (name)\s*\( for a name that starts at j and ends at e
NameThenParen(s, j, e, p) == IF p <= Len(s) /\ s[p] = "(" THEN Sig(Slice(s, j, e), p) ELSE NoSig
NameParenFrom(s, j, e) == NameThenParen(s, j, e, SkipWs(s, e + 1))

\* /kw\s+([a-zA-Z_][a-zA-Z0-9_]*)\s*\(/  (function name(, def name(): after is
\* the position after the keyword, j the end of the white space behind it.
KeywordNameTo(s, after, j) ==
    IF j > after /\ IsIdentStart(s, j) THEN NameParenFrom(s, j, IdentEnd(s, j)) ELSE NoSig
KeywordNameParen(s, i, kw) ==
    IF StartsWith(s, i, kw) THEN KeywordNameTo(s, i + Len(kw), SkipWs(s, i + Len(kw)))
    ELSE NoSig

\* (?:\([^)]*\)\s*=>|function) at position r, for the name s[j..e]
ArrowTo(s, j, e, a) == IF StartsWith(s, a, <<"=", ">">>) THEN Sig(Slice(s, j, e), a + 1) ELSE NoSig
ArrowFrom(s, j, e, q) == IF q = 0 THEN NoSig ELSE ArrowTo(s, j, e, SkipWs(s, q + 1))
ArrowOrFunction(s, j, e, r) ==
    IF r > Len(s) THEN NoSig
    ELSE IF s[r] = "(" THEN ArrowFrom(s, j, e, FirstAt(s, r + 1, ")"))
    ELSE IF StartsWith(s, r, <<"f", "u", "n", "c", "t", "i", "o", "n">>) THEN Sig(Slice(s, j, e), r + 7)
    ELSE NoSig
\* \s*=\s* at position c
AssignedTo(s, j, e, c) ==
    IF c <= Len(s) /\ s[c] = "=" THEN ArrowOrFunction(s, j, e, SkipWs(s, c + 1)) ELSE NoSig
ConstNameTo(s, after, j) ==
    IF j > after /\ IsIdentStart(s, j)
    THEN AssignedTo(s, j, IdentEnd(s, j), SkipWs(s, IdentEnd(s, j) + 1))
    ELSE NoSig
\* /const\s+(name)\s*=\s*(?:\([^)]*\)\s*=>|function)/
ConstFunction(s, i) ==
    IF StartsWith(s, i, <<"c", "o", "n", "s", "t">>) THEN ConstNameTo(s, i + 5, SkipWs(s, i + 5)) ELSE NoSig

\* /(name)\s*:\s*function/: the name starts at i, wherever in a word that is.
PropertyTo(s, i, e, f) == IF StartsWith(s, f, <<"f", "u", "n", "c", "t", "i", "o", "n">>) THEN Sig(Slice(s, i, e), f + 7) ELSE NoSig
PropertyColon(s, i, e, c) ==
    IF c <= Len(s) /\ s[c] = ":" THEN PropertyTo(s, i, e, SkipWs(s, c + 1)) ELSE NoSig
PropertyName(s, i, e) == PropertyColon(s, i, e, SkipWs(s, e + 1))
PropertyFunction(s, i) == IF IsIdentStart(s, i) THEN PropertyName(s, i, IdentEnd(s, i)) ELSE NoSig

\* /export\s+(?:function\s+)?(name)/: the name after "export function" when
\* there is one, else the word after export, be it the word function itself.
ExportedName(s, j) == Sig(Slice(s, j, IdentEnd(s, j)), IdentEnd(s, j))
ExportFunctionTo(s, j, n) ==
    IF n > j + 8 /\ IsIdentStart(s, n) THEN ExportedName(s, n)
    ELSE IF IsIdentStart(s, j) THEN ExportedName(s, j)
    ELSE NoSig
ExportTo(s, after, j) ==
    IF j <= after THEN NoSig
    ELSE IF StartsWith(s, j, <<"f", "u", "n", "c", "t", "i", "o", "n">>) THEN ExportFunctionTo(s, j, SkipWs(s, j + 8))
    ELSE IF IsIdentStart(s, j) THEN ExportedName(s, j)
    ELSE NoSig
ExportName(s, i) ==
    IF StartsWith(s, i, <<"e", "x", "p", "o", "r", "t">>) THEN ExportTo(s, i + 6, SkipWs(s, i + 6)) ELSE NoSig

\* (?:\w+\s+)*(name)\s*\( from position q on: words and white space up to a "(",
\* at n; the name is the last of the words, which a digit must not start.  e is
\* the end of that word, w the last white space before it.
ChainName(s, q, n, e, w) ==
    IF s[IF w = 0 THEN q ELSE w + 1] \in Digits THEN NoSig
    ELSE Sig(Slice(s, IF w = 0 THEN q ELSE w + 1, e), n)
ChainWord(s, q, n, e) == ChainName(s, q, n, e, LastWhere(s, q, e, WhiteSpace, TRUE))
ChainTo(s, q, n) ==
    IF n = 0 THEN NoSig
    ELSE IF s[n] # "(" THEN NoSig
    ELSE ChainWord(s, q, n, LastWhere(s, q, n - 1, WordChars, TRUE))
Chain(s, q) ==
    IF q <= Len(s) /\ s[q] \in WordChars
    THEN ChainTo(s, q, FirstWhere(s, q, Len(s), WordChars \cup WhiteSpace, FALSE))
    ELSE NoSig

\* The java pattern at position i,
\* /(?:public|private|protected)?\s*(?:static\s+)?(?:\w+\s+)*(name)\s*\(/: with
\* the modifier that stands at i when the rest matches behind it, else without.
Modifiers == {<<"p", "u", "b", "l", "i", "c">>, <<"p", "r", "i", "v", "a", "t", "e">>, <<"p", "r", "o", "t", "e", "c", "t", "e", "d">>}
ModifierAt(s, i) == {m \in Modifiers : StartsWith(s, i, m)}
ChainOr(behind, s, i) == IF behind.ok THEN behind ELSE Chain(s, SkipWs(s, i))
NameParenAfter(s, i, ms) ==
    IF ms = {} THEN Chain(s, SkipWs(s, i))
    ELSE ChainOr(Chain(s, SkipWs(s, i + Len(CHOOSE m \in ms : TRUE))), s, i)
NameParen(s, i) == NameParenAfter(s, i, ModifierAt(s, i))

\* The patterns of a language, in the order of the source
signaturePatterns ==
    <<<<<<"j", "a", "v", "a", "s", "c", "r", "i", "p", "t">>, <<"function", "const", "property", "export">>>>,
      <<<<"p", "y", "t", "h", "o", "n">>, <<"def">>>>,
      <<<<"j", "a", "v", "a">>, <<"nameparen">>>>>>

SigAt(pat, s, i) ==
    CASE pat = "function" -> KeywordNameParen(s, i, <<"f", "u", "n", "c", "t", "i", "o", "n">>)
      [] pat = "const" -> ConstFunction(s, i)
      [] pat = "property" -> PropertyFunction(s, i)
      [] pat = "export" -> ExportName(s, i)
      [] pat = "def" -> KeywordNameParen(s, i, <<"d", "e", "f">>)
      [] OTHER -> NameParen(s, i)

\* while ((match = pattern.exec(content)) !== null): the captures of the
\* successive matches from position from on, each search resuming after the
\* previous match.
RECURSIVE ExecAll(_, _, _), ExecAmong(_, _, _), ExecNext(_, _, _)
ExecAll(pat, s, from) == ExecAmong(pat, s, {i \in from..Len(s) : SigAt(pat, s, i).ok})
ExecAmong(pat, s, at) == IF at = {} THEN <<>> ELSE ExecNext(pat, s, SigAt(pat, s, Least(at)))
ExecNext(pat, s, m) == <<m.name>> \o ExecAll(pat, s, m.end + 1)

\* A variant of PushNew that pushes every match.
PushAll(acc, names) == acc \o names

\* push unless a function of that name is there already
RECURSIVE PushNew(_, _)
PushNew(acc, names) ==
    IF names = <<>> THEN acc
    ELSE PushNew(IF \E k \in 1..Len(acc) : acc[k] = names[1] THEN acc
                 ELSE Append(acc, names[1]), Tail(names))

RECURSIVE AllPatterns(_, _, _, _)
AllPatterns(pats, k, s, acc) ==
    IF k > Len(pats) THEN acc
    ELSE AllPatterns(pats, k + 1, s, PushNew(acc, ExecAll(pats[k], s, 1)))

\* content.includes('export')
HasExport(s) == Includes(s, <<"e", "x", "p", "o", "r", "t">>)

\* a.slice(0, n): the first n elements, all but the last -n for a negative n.
SliceEnd(len, n) ==
    IF n < 0 THEN (IF len + n < 0 THEN 0 ELSE len + n)
    ELSE IF len < n THEN len ELSE n
FirstN(a, n) == Slice(a, 1, SliceEnd(Len(a), n))

\* patterns[language] || patterns.javascript, then its forEach: [threw, v].  A
\* member that the table inherits is truthy and has no forEach: a TypeError.
PatternsFor(key) ==
    IF TableHas(signaturePatterns, key) THEN NotThrown(TableAt(signaturePatterns, key))
    ELSE IF key \in InheritedKeys THEN [threw |-> TRUE, v |-> <<>>]
    ELSE NotThrown(TableAt(signaturePatterns, <<"j", "a", "v", "a", "s", "c", "r", "i", "p", "t">>))
PatternsOf(language) == PatternsFor(ToText(language))

\* isExported: content.includes('export') && content.includes(name)
FunctionRecords(names, content, language) ==
    [k \in 1..Len(names) |->
        [name |-> names[k],
         isExported |-> HasExport(content) /\ Includes(content, names[k]),
         language |-> language]]

Extracted(patterns, content, language) ==
    IF patterns.threw THEN [threw |-> TRUE, v |-> <<>>]
    ELSE [threw |-> FALSE,
          v |-> FirstN(FunctionRecords(AllPatterns(patterns.v, 1, content, <<>>),
                                       content, language), 5)]

\* [threw, v]: the functions found, at most five: [name, isExported, language].
\* An absent or empty content gives none, whatever the language.
extractFunctionsFromCode(content, language) ==
    IF content = <<>> THEN [threw |-> FALSE, v |-> <<>>]
    ELSE Extracted(PatternsOf(language), content, language)

----------------------------------------------------------------------------
(* GeminiService.createFallbackTestCases *)

\* config.types || ['unit']
RequestedTypes(cfg) == OrElse(cfg.types, Arr(<<Str(<<"u", "n", "i", "t">>)>>))

FallbackTags(language, framework) == Arr(<<language, framework, Str(<<"f", "a", "l", "l", "b", "a", "c", "k">>)>>)

\* One pushed case: [threw, v].  The text of a type that has none, or a template
\* that throws, is a TypeError.
FunctionCaseIn(file, fileIndex, func, funcIndex, type, typeIndex, now, language, framework, code) ==
    IF TextThrows(type) \/ code.threw THEN Thrown
    ELSE NotThrown(
        [id |-> Str(<<"f", "a", "l", "l", "b", "a", "c", "k", "_">> \o DigitsOf(now) \o <<"_">> \o DigitsOf(fileIndex) \o <<"_">>
                    \o DigitsOf(funcIndex) \o <<"_">> \o DigitsOf(typeIndex)),
         title |-> Str(<<"T", "e", "s", "t", " ">> \o func.name \o <<" ", "f", "u", "n", "c", "t", "i", "o", "n", " ", "-", " ">> \o ToText(type)),
         description |-> Str(ToText(type) \o <<" ", "t", "e", "s", "t", " ", "f", "o", "r", " ">> \o func.name \o <<" ", "f", "u", "n", "c", "t", "i", "o", "n", " ", "i", "n", " ">>
                             \o file.path),
         type |-> type,
         priority |-> Str(IF func.isExported THEN <<"h", "i", "g", "h">> ELSE <<"m", "e", "d", "i", "u", "m">>),
         file |-> Str(file.path),
         function |-> Str(func.name),
         code |-> code.v,
         setup |-> Null,
         teardown |-> Null,
         dependencies |-> getFrameworkDependencies(framework),
         tags |-> FallbackTags(language, framework),
         generatedBy |-> Str(<<"f", "a", "l", "l", "b", "a", "c", "k", "-", "f", "u", "n", "c", "t", "i", "o", "n", "-", "b", "a", "s", "e", "d">>),
         createdAt |-> IsoTime(now)])

FunctionCaseBy(file, fileIndex, func, funcIndex, type, typeIndex, now, language, framework) ==
    FunctionCaseIn(file, fileIndex, func, funcIndex, type, typeIndex, now, language, framework,
                   generateFunctionTestCode(language, framework, type, func, file))

FunctionCaseOf(file, fileIndex, func, funcIndex, type, typeIndex, now, language) ==
    FunctionCaseBy(file, fileIndex, func, funcIndex, type, typeIndex, now, language,
                   getDefaultFramework(language))

FunctionCase(file, fileIndex, func, funcIndex, type, typeIndex, now) ==
    FunctionCaseOf(file, fileIndex, func, funcIndex, type, typeIndex, now,
                   detectLanguage(file.path))

GenericCaseIn(file, fileIndex, type, typeIndex, now, language, framework, code) ==
    IF TextThrows(type) \/ code.threw THEN Thrown
    ELSE NotThrown(
        [id |-> Str(<<"f", "a", "l", "l", "b", "a", "c", "k", "_", "g", "e", "n", "e", "r", "i", "c", "_">> \o DigitsOf(now) \o <<"_">> \o DigitsOf(fileIndex) \o <<"_">>
                    \o DigitsOf(typeIndex)),
         title |-> Str(ToText(type) \o <<" ", "t", "e", "s", "t", " ", "f", "o", "r", " ">> \o NameOrPath(file)),
         description |-> Str(<<"G", "e", "n", "e", "r", "a", "t", "e", "d", " ">> \o ToText(type) \o <<" ", "t", "e", "s", "t", " ", "c", "a", "s", "e", " ", "f", "o", "r", " ">> \o file.path),
         type |-> type,
         priority |-> Str(<<"m", "e", "d", "i", "u", "m">>),
         file |-> Str(file.path),
         function |-> Null,
         code |-> code.v,
         setup |-> Null,
         teardown |-> Null,
         dependencies |-> getFrameworkDependencies(framework),
         tags |-> FallbackTags(language, framework),
         generatedBy |-> Str(<<"f", "a", "l", "l", "b", "a", "c", "k", "-", "g", "e", "n", "e", "r", "i", "c">>),
         createdAt |-> IsoTime(now)])

GenericCaseBy(file, fileIndex, type, typeIndex, now, language, framework) ==
    GenericCaseIn(file, fileIndex, type, typeIndex, now, language, framework,
                  generateTemplateCode(language, framework, type, file))

GenericCaseOf(file, fileIndex, type, typeIndex, now, language) ==
    GenericCaseBy(file, fileIndex, type, typeIndex, now, language, getDefaultFramework(language))

GenericCase(file, fileIndex, type, typeIndex, now) ==
    GenericCaseOf(file, fileIndex, type, typeIndex, now, detectLanguage(file.path))

\* The cases of one file, each [threw, v]: for each of its first three
\* functions, one per type; without functions, one per type.  types is the
\* array's element sequence.
CasesOf(file, fileIndex, funcs, types, nt, now) ==
    IF funcs # <<>>
    THEN [k \in 1..(Len(funcs) * nt) |->
             FunctionCase(file, fileIndex, funcs[((k - 1) \div nt) + 1], (k - 1) \div nt,
                          types[((k - 1) % nt) + 1], (k - 1) % nt, now)]
    ELSE [k \in 1..nt |-> GenericCase(file, fileIndex, types[k], k - 1, now)]

FileCases(file, fileIndex, types, now) ==
    CasesOf(file, fileIndex,
            FirstN(extractFunctionsFromCode(file.content, detectLanguage(file.path)).v, 3),
            types, Len(types), now)

\* The pushed cases, unless making one of them threw
Pushed(cases) ==
    IF \E k \in 1..Len(cases) : cases[k].threw THEN [threw |-> TRUE, v |-> <<>>]
    ELSE [threw |-> FALSE, v |-> [k \in 1..Len(cases) |-> cases[k].v]]

PushedOnto(pushed, cases) ==
    IF cases.threw THEN [threw |-> TRUE, v |-> <<>>] ELSE NotThrown(pushed \o cases.v)

\* The callback of files.forEach for one file, given the cases pushed so far:
\* [threw, v], v the cases pushed after it.  types.forEach is a TypeError when
\* the requested types are no array.
ForFile(pushed, file, fileIndex, cfg, now) ==
    IF \/ RequestedTypes(cfg).t # "arr"
       \/ extractFunctionsFromCode(file.content, detectLanguage(file.path)).threw
    THEN [threw |-> TRUE, v |-> <<>>]
    ELSE PushedOnto(pushed, Pushed(FileCases(file, fileIndex, RequestedTypes(cfg).a, now)))

\* files.forEach from the k-th file on
RECURSIVE ForEachFile(_, _, _, _, _)
ForEachFile(pushed, fs, k, cfg, now) ==
    IF pushed.threw \/ k > Len(fs) THEN pushed
    ELSE ForEachFile(ForFile(pushed.v, fs[k], k - 1, cfg, now), fs, k + 1, cfg, now)

\* [threw, v]: the array a call returns.  const testCases = [] is a new array
\* for every call.
createFallbackTestCases(why, fs, cfg, now) == ForEachFile(NotThrown(<<>>), fs, 1, cfg, now)

\* parseTestCasesResponse: the cases of the try block, else those of the
\* fallback generator called from the catch block.  [threw, v, by].
FromFallback(fb) == [threw |-> fb.threw, v |-> fb.v, by |-> "fallback"]

ParseOrFallback(try, fs, cfg, now) ==
    IF try.ok THEN [threw |-> FALSE, v |-> try.cases, by |-> try.by]
    ELSE FromFallback(createFallbackTestCases(<<"Parsing failed: ", try.error>>, fs, cfg, now))

parseTestCasesResponse(s, fs, cfg, now) ==
    ParseOrFallback(ParseAttempt(s, fs, cfg, now), fs, cfg, now)

----------------------------------------------------------------------------
(* GeminiService.buildTestGenerationPrompt *)

\* A destructuring default: it replaces undefined only.
DefaultOf(v, d) == IF v.t = "undefined" THEN d ELSE v

\* [threw, v].  types.join is a TypeError when types is no array.  The prompt is
\* held by the texts interpolated into its fixed wording: per file its path, its
\* language and the first 3000 characters of its content, then the joined
\* types, the complexity, the framework and the number of cases asked for.
PromptOf(fs, types, complexity, framework) ==
        IF types.t # "arr" \/ TextThrows(types) \/ TextThrows(complexity)
           \/ TextThrows(framework)
        THEN Thrown
        ELSE NotThrown(
            [context |-> [k \in 1..Len(fs) |->
                            [path |-> fs[k].path,
                             language |-> ToText(detectLanguage(fs[k].path)),
                             content |-> IF fs[k].content = <<>>
                                         THEN <<"C", "o", "n", "t", "e", "n", "t", " ", "n", "o", "t", " ", "a", "v", "a", "i", "l", "a", "b", "l", "e">>
                                         ELSE Slice(fs[k].content, 1,
                                                    Min(3000, Len(fs[k].content)))]],
             types |-> JoinText(types.a, 1, <<",", " ">>),
             complexity |-> ToText(complexity),
             framework |-> IF framework = Str(<<"a", "u", "t", "o">>)
                           THEN <<"m", "o", "s", "t", " ", "a", "p", "p", "r", "o", "p", "r", "i", "a", "t", "e", " ", "f", "o", "r",
        " ", "t", "h", "e", " ", "l", "a", "n", "g", "u", "a", "g", "e">>
                           ELSE ToText(framework),
             count |-> Min(Len(fs) * 4, 12)])

buildTestGenerationPrompt(fs, cfg) ==
    PromptOf(fs, DefaultOf(cfg.types, Arr(<<Str(<<"u", "n", "i", "t">>)>>)),
             DefaultOf(cfg.complexity, Str(<<"m", "e", "d", "i", "u", "m">>)),
             DefaultOf(cfg.framework, Str(<<"a", "u", "t", "o">>)))

----------------------------------------------------------------------------
(* Inputs: file records, configs and response texts *)

MaxEntries == 2     \* entries of a testCases array built from CoreEntries
MaxJunk == 2        \* fragments of an unstructured response

MathJs ==
    [path |-> <<"s", "r", "c", "/", "m", "a", "t", "h", ".", "j", "s">>, name |-> <<"m", "a", "t", "h", ".", "j", "s">>,
     content |-> <<"e", "x", "p", "o", "r", "t", " ", "f", "u", "n", "c", "t", "i", "o", "n", " ", "a", "d", "d", "(",
        "a", ")", " ", "{", "}", "\n", "f", "u", "n", "c", "t", "i", "o", "n", " ", "s", "u", "b", "(", "a",
        ")", " ", "{", "}">>]
UtilPy == [path |-> <<"l", "i", "b", "/", "u", "t", "i", "l", ".", "P", "Y">>, name |-> <<>>, content |-> <<"x", " ", "=", " ", "5">>]
MainGo == [path |-> <<"m", "a", "i", "n", ".", "g", "o">>, name |-> <<"m", "a", "i", "n", ".", "g", "o">>, content |-> <<>>]

FileLists == {<<>>, <<MathJs>>, <<UtilPy, MathJs>>, <<MainGo>>}

\* JavaScript files that export two functions, one file per export form
TwoLines(a, b) == a \o <<NL>> \o b
JsFile(stem, content) ==
    [path |-> <<"s", "r", "c", "/">> \o stem \o <<".", "j", "s">>, name |-> stem \o <<".", "j", "s">>, content |-> content]
ExportedFunction(name) == <<"e", "x", "p", "o", "r", "t", " ", "f", "u", "n", "c", "t", "i", "o", "n", " ">> \o name \o <<"(", "a", ")", " ", "{", "}">>
ExportedArrow(name) == <<"e", "x", "p", "o", "r", "t", " ", "c", "o", "n", "s", "t", " ">> \o name \o <<" ", "=", " ", "(", "a", ")", " ", "=", ">", " ", "{", "}">>
ExportedAsync(name) == <<"e", "x", "p", "o", "r", "t", " ", "a", "s", "y", "n", "c", " ", "f", "u", "n", "c", "t", "i", "o", "n", " ">> \o name \o <<"(", "a", ")", " ", "{", "}">>
ExportedDefault(name) == <<"e", "x", "p", "o", "r", "t", " ", "d", "e", "f", "a", "u", "l", "t", " ", "f", "u", "n", "c", "t", "i", "o", "n", " ">> \o name \o <<"(", "a", ")", " ", "{", "}">>
ExportForms ==
    {JsFile(<<"p", "l", "a", "i", "n">>, TwoLines(ExportedFunction(<<"f", "o", "o">>), ExportedFunction(<<"b", "a", "r">>))),
     JsFile(<<"a", "r", "r", "o", "w">>, TwoLines(ExportedArrow(<<"f", "o", "o">>), ExportedArrow(<<"b", "a", "r">>))),
     JsFile(<<"a", "s", "y", "n", "c">>, TwoLines(ExportedAsync(<<"f", "o", "o">>), ExportedAsync(<<"b", "a", "r">>))),
     JsFile(<<"d", "e", "f", "a", "u", "l", "t">>, TwoLines(ExportedDefault(<<"f", "o", "o">>), ExportedFunction(<<"b", "a", "r">>)))}
ExportLists == {<<f>> : f \in ExportForms}

\* A JavaScript file of six functions, none exported
PlainFunction(name) == <<"f", "u", "n", "c", "t", "i", "o", "n", " ">> \o name \o <<"(", "a", ")", " ", "{", "}">>
ManyJs ==
    JsFile(<<"m", "a", "n", "y">>,
           TwoLines(TwoLines(TwoLines(PlainFunction(<<"f", "1">>), PlainFunction(<<"f", "2">>)),
                             TwoLines(PlainFunction(<<"f", "3">>), PlainFunction(<<"f", "4">>))),
                    TwoLines(PlainFunction(<<"f", "5">>), PlainFunction(<<"f", "6">>))))
ManyLists == {<<ManyJs>>, <<MainGo, ManyJs>>}

\* A file whose extension names a member that languageMap inherits, a java file
\* with an annotation, and a file that holds the letters of export in a longer
\* word only
OddFile == [path |-> <<"l", "i", "b", "/", "x", ".", "C", "o", "n", "s", "t", "r", "u", "c", "t", "o", "r">>, name |-> <<>>, content |-> PlainFunction(<<"f", "1">>)]
TestJava ==
    [path |-> <<"s", "r", "c", "/", "T", ".", "j", "a", "v", "a">>, name |-> <<"T", ".", "j", "a", "v", "a">>,
     content |-> <<"@", "T", "e", "s", "t", "(", "a", ")", "\n", "p", "u", "b", "l", "i", "c", " ", "v", "o", "i", "d",
        " ", "r", "u", "n", "(", ")", " ", "{", "}">>]
ReexportJs ==
    [path |-> <<"s", "r", "c", "/", "r", "e", ".", "j", "s">>, name |-> <<"r", "e", ".", "j", "s">>,
     content |-> <<"f", "u", "n", "c", "t", "i", "o", "n", " ", "z", "z", "(", "a", ")", " ", "{", "}", "\n", "r", "e",
        "e", "x", "p", "o", "r", "t", "e", "d">>]
OddLists == {<<OddFile>>, <<TestJava>>, <<ReexportJs>>}

TypeLists ==
    {Undefined, Arr(<<>>), Arr(<<Str(<<"u", "n", "i", "t">>)>>),
     Arr(<<Str(<<"e", "2", "e">>), Str(<<"u", "n", "i", "t">>)>>), Str(<<"u", "n", "i", "t">>)}
Configs == [types : TypeLists, complexity : {Undefined}, framework : {Undefined}]

Lit(w) == <<"\"">> \o w \o <<"\"">>
EmptyLit == <<"\"", "\"">>
Member(key, val) == Lit(key) \o <<":">> \o val

\* The fields an entry of the model may supply, with the keys that name them
FieldSpelling ==
    [id |-> <<"i", "d">>, title |-> <<"t", "i", "t", "l", "e">>, description |-> <<"d", "e", "s", "c", "r", "i", "p", "t", "i", "o", "n">>, type |-> <<"t", "y", "p", "e">>,
     priority |-> <<"p", "r", "i", "o", "r", "i", "t", "y">>, file |-> <<"f", "i", "l", "e">>, function |-> <<"f", "u", "n", "c", "t", "i", "o", "n">>, code |-> <<"c", "o", "d", "e">>,
     setup |-> <<"s", "e", "t", "u", "p">>, teardown |-> <<"t", "e", "a", "r", "d", "o", "w", "n">>, dependencies |-> <<"d", "e", "p", "e", "n", "d", "e", "n", "c", "i", "e", "s">>,
     tags |-> <<"t", "a", "g", "s">>]
FieldNames == DOMAIN FieldSpelling
DescribeAdd == <<"\"", "m", "y", "d", "e", "s", "c", "r", "i", "b", "e", "(", "'", "a", "d", "d", "'", ")", "\"">>
ProbeValues ==
    {Lit(<<"x">>), EmptyLit, <<"n", "u", "l", "l">>, <<"0">>, <<"5">>, <<"[", "]">>, <<"[", "\"", "d", "\"", "]">>, DescribeAdd, <<"-", "1", ".", "5", "e", "1">>,
     <<"\"", "a", "\\", "u", "0", "0", "4", "1", "\\", "n", "\"">>, <<"1", "e", "-", "4", "0", "0">>, <<"1", "e", "4", "0", "0">>}
\* An id between two doubles
LongId == <<"{", "\"", "i", "d", "\"", ":", "1", "2", "3", "4", "5", "6", "7", "8", "9", "0", "1", "2", "3", "4",
        "5", "6", "7", "8", "9", "0", "}">>
\* {"field": value}
ProbeEntries ==
    {<<"{">> \o Member(FieldSpelling[f], v) \o <<"}">> : f \in FieldNames, v \in ProbeValues}
        \cup {LongId}

TitleX == <<"{", "\"", "t", "i", "t", "l", "e", "\"", ":", "\"", "x", "\"", "}">>
CoreEntries ==
    {TitleX, <<"{", "}">>, <<"n", "u", "l", "l">>, <<"5">>, <<"{", "\"", "t", "y", "p", "e", "\"", ":", "\"", "e", "2", "e", "\"", ",", "\"", "c", "o", "d", "e", "\"",
        ":", "\"", "i", "t", "(", "'", "a", "d", "d", "'", ")", "\"", "}">>, <<"{", "\"", "c", "o", "d", "e", "\"", ":", "5", "}">>}

RECURSIVE Commas(_, _)
Commas(es, k) ==
    IF k > Len(es) THEN <<>>
    ELSE (IF k > 1 THEN <<",">> ELSE <<>>) \o es[k] \o Commas(es, k + 1)

\* {"testCases":[e1,...,en]}
CasesDoc(es) == <<"{">> \o Member(<<"t", "e", "s", "t", "C", "a", "s", "e", "s">>, <<"[">> \o Commas(es, 1) \o <<"]">>) \o <<"}">>

ListDocs == {CasesDoc(es) : es \in UNION {[1..n -> CoreEntries] : n \in 0..MaxEntries}}
ProbeDocs == {CasesDoc(<<e>>) : e \in ProbeEntries}

\* A testCases document whose code string holds a fenced block.
FenceInCode == CasesDoc(<<<<"{", "\"", "c", "o", "d", "e", "\"", ":", "\"", BQ, BQ, BQ, "{", "a", "}", BQ, BQ, BQ, "\"", "}">>>>)

OtherDocs ==
    {<<"{", "\"", "c", "a", "s", "e", "s", "\"", ":", "[", "]", "}">>, <<"{", "}">>, <<"n", "u", "l", "l">>, <<"5">>, Lit(<<"x">>), <<"[", "]">>, <<"{", "\"", "t", "e", "s", "t", "C", "a", "s", "e", "s", "\"", ":", "5", "}">>,
     <<"{", "\"", "t", "e", "s", "t", "C", "a", "s", "e", "s", "\"", ":", "n", "u", "l", "l", "}">>, <<"{", "\"", "t", "e", "s", "t", "C", "a", "s", "e", "s", "\"", ":", "{", "}", "}">>, <<"{", "b", "a", "d", "}">>, <<"{", "\"", "t", "e", "s", "t", "C", "a", "s", "e", "s", "\"", ":", "[", "{", "\"", "t", "i", "t", "l",
        "e", "\"", ":", "\"", "x", "\"", "}", "]">>,
     <<"{", "\"", "t", "e", "s", "t", "C", "a", "s", "e", "s", "\"", ":", "[", "\"", "a", "\\", "q", "b", "\"", "]", "}">>}

WrapDocs ==
    OtherDocs \cup {CasesDoc(<<TitleX>>), CasesDoc(<<>>), CasesDoc(<<<<"n", "u", "l", "l">>>>), FenceInCode}

Wrappers == 1..10
Wrap(w, d) ==
    CASE w = 1 -> d
      [] w = 2 -> <<"\r", "\n">> \o d \o <<"\t", " ">>
      [] w = 3 -> <<"S", "u", "r", "e", "!", " ">> \o d
      [] w = 4 -> d \o <<" ", "o", "k">>
      [] w = 5 -> <<"H", "e", "r", "e", ":", " ">> \o d \o <<" ", "o", "k", "!">>
      [] w = 6 -> <<BQ, BQ, BQ, "\n">> \o d \o <<"\n", BQ, BQ, BQ>>
      [] w = 7 -> <<"S", "u", "r", "e", "!", " ", BQ, BQ, BQ, "j", "s", "o", "n", "\n">> \o d \o <<"\n", BQ, BQ, BQ>>
      [] w = 8 -> <<BQ, BQ, BQ, "j", "s", "\n">> \o d \o <<"\n", BQ, BQ, BQ>>
      [] w = 9 -> <<BQ, BQ, BQ, "{", "b", "a", "d", "}", BQ, BQ, BQ, " ">> \o d
      [] OTHER -> d \o <<" ">> \o d

RECURSIVE Joined(_)
Joined(parts) == IF parts = <<>> THEN <<>> ELSE Head(parts) \o Joined(Tail(parts))
JunkParts == {<<"{">>, <<"}">>, <<"[">>, <<":">>, <<"\"">>, <<"t", "e", "s", "t", "C", "a", "s", "e", "s">>, FENCE, <<"x">>}
Junk == {Joined(ps) : ps \in UNION {[1..n -> JunkParts] : n \in 0..MaxJunk}}

Texts == ListDocs \cup ProbeDocs \cup {Wrap(w, d) : w \in Wrappers, d \in WrapDocs} \cup Junk

ModelErrors == {"not found", "quota exceeded"}
ResponseErrors == {"blocked"}

----------------------------------------------------------------------------
(* A direct call of parseTestCasesResponse *)

IdleSelect == repoFiles = <<>> /\ maxFiles = 0 /\ selection = <<>>

IdleSessions ==
    /\ activeSessions = <<>>
    /\ githubClients = <<>>
    /\ issued = <<>>
    /\ loggedOut = <<>>
    /\ oauthConfigured = FALSE
    /\ authenticating = <<>>

IdleOthers ==
    /\ IdleSessions
    /\ subject = <<>>
    /\ outcome = <<>>
    /\ earlier = <<>>
    /\ testCases = <<>>
    /\ visited = 0
    /\ request = <<>>
    /\ fetched = <<>>
    /\ response = <<>>

InitParse ==
    /\ clock = 1
    /\ pc = "ParseCall"
    /\ files \in FileLists
    /\ config \in Configs
    /\ text \in Texts
    /\ prompt = Undefined
    /\ reason = <<>>
    /\ result = <<>>
    /\ via = "none"
    /\ calls = 0
    /\ IdleSelect
    /\ IdleOthers

ParseReturns(r) ==
    /\ pc' = IF r.threw THEN "ParseThrew" ELSE "ParseReturned"
    /\ result' = r.v
    /\ via' = r.by

ParseCall ==
    /\ pc = "ParseCall"
    /\ ParseReturns(parseTestCasesResponse(text, files, config, clock))
    /\ UNCHANGED <<clock, files, config, text, prompt, reason, calls, repoFiles, maxFiles,
                   selection, others>>

NextParse == ParseCall

SpecParse == InitParse /\ [][NextParse]_vars

----------------------------------------------------------------------------
(* GeminiService.generateTestCases: one request *)

\* The message handed to the fallback generator by the catch block.
AIFailed(message) == <<"AI generation failed: ", message>>

Init ==
    /\ clock = 1
    /\ pc = "Prompting"
    /\ files \in FileLists \cup ExportLists
    /\ config \in Configs
    /\ text = <<>>
    /\ prompt = Undefined
    /\ reason = <<>>
    /\ result = <<>>
    /\ via = "none"
    /\ calls = 0
    /\ IdleSelect
    /\ IdleOthers

\* The input check and buildTestGenerationPrompt; a built prompt is handed to
\* model.generateContent at once.
PromptBuilt(p) ==
    IF files = <<>>
    THEN /\ pc' = "FallingBack"
         /\ reason' = AIFailed("No files provided for test generation")
         /\ UNCHANGED <<prompt, calls>>
    ELSE IF p.threw
    THEN /\ pc' = "FallingBack"
         /\ reason' = AIFailed("TypeError")
         /\ UNCHANGED <<prompt, calls>>
    ELSE /\ pc' = "AwaitingModel"
         /\ prompt' = p.v
         /\ calls' = calls + 1
         /\ UNCHANGED reason

BuildPrompt ==
    /\ pc = "Prompting"
    /\ PromptBuilt(buildTestGenerationPrompt(files, config))
    /\ UNCHANGED <<clock, files, config, text, result, via, repoFiles, maxFiles, selection, others>>

\* await this.model.generateContent(prompt) settles with a result.
ModelAnswers ==
    /\ pc = "AwaitingModel"
    /\ pc' = "AwaitingResponse"
    /\ clock' = clock + 1
    /\ UNCHANGED <<files, config, text, prompt, reason, result, via, calls, repoFiles, maxFiles,
                   selection, others>>

\* await result.response; response.text()
ResponseRead(txt) ==
    /\ pc = "AwaitingResponse"
    /\ pc' = "Parsing"
    /\ text' = txt
    /\ UNCHANGED <<clock, files, config, prompt, reason, result, via, calls, repoFiles, maxFiles,
                   selection, others>>

\* result.response rejects or response.text() throws: the catch block takes over.
ResponseFails(err) ==
    /\ pc = "AwaitingResponse"
    /\ pc' = "FallingBack"
    /\ reason' = AIFailed(err)
    /\ UNCHANGED <<clock, files, config, text, prompt, result, via, calls, repoFiles, maxFiles,
                   selection, others>>

\* A variant of ModelFails that asks the model again after an error.
ModelFailsRetry(err) ==
    /\ pc = "AwaitingModel"
    /\ pc' = "Prompting"
    /\ reason' = AIFailed(err)
    /\ clock' = clock + 1
    /\ UNCHANGED <<files, config, text, prompt, result, via, calls, repoFiles, maxFiles,
                   selection, others>>

\* generateContent rejects: the catch block takes over.
ModelFails(err) ==
    /\ pc = "AwaitingModel"
    /\ pc' = "FallingBack"
    /\ reason' = AIFailed(err)
    /\ clock' = clock + 1
    /\ UNCHANGED <<files, config, text, prompt, result, via, calls, repoFiles, maxFiles,
                   selection, others>>

\* The try block of parseTestCasesResponse: its result is returned, or its
\* catch block hands "Parsing failed: ..." to the fallback generator.
Parsed(try) ==
    IF try.ok
    THEN /\ pc' = "Done"
         /\ result' = try.cases
         /\ via' = try.by
         /\ UNCHANGED reason
    ELSE /\ pc' = "FallingBack"
         /\ reason' = <<"Parsing failed: ", try.error>>
         /\ UNCHANGED <<result, via>>

Parse ==
    /\ pc = "Parsing"
    /\ Parsed(ParseAttempt(text, files, config, clock))
    /\ UNCHANGED <<clock, files, config, text, prompt, calls, repoFiles, maxFiles, selection, others>>

\* createFallbackTestCases.  When it throws inside parseTestCasesResponse the
\* exception reaches the catch block of generateTestCases, which calls it again;
\* when it throws there, the promise of generateTestCases rejects.
FellBack(fb) ==
    IF ~fb.threw
    THEN /\ pc' = "Done"
         /\ result' = fb.v
         /\ via' = "fallback"
         /\ UNCHANGED reason
    ELSE IF reason[1] = "Parsing failed: "
    THEN /\ pc' = "FallingBack"
         /\ reason' = AIFailed("TypeError")
         /\ UNCHANGED <<result, via>>
    ELSE /\ pc' = "Rejected"
         /\ UNCHANGED <<reason, result, via>>

Fallback ==
    /\ pc = "FallingBack"
    /\ FellBack(createFallbackTestCases(reason, files, config, clock))
    /\ UNCHANGED <<clock, files, config, text, prompt, calls, repoFiles, maxFiles, selection, others>>

Next ==
    \/ BuildPrompt
    \/ ModelAnswers
    \/ \E txt \in Texts : ResponseRead(txt)
    \/ \E err \in ResponseErrors : ResponseFails(err)
    \/ \E err \in ModelErrors : ModelFails(err)
    \/ Parse
    \/ Fallback

Spec == Init /\ [][Next]_vars

\* Every step of a request is a synchronous continuation or the settling of the
\* awaited model call, so a request that can move does move.
FairSpec == Spec /\ WF_vars(Next)

----------------------------------------------------------------------------
(* FileAnalysisService: file names and paths are sequences of characters *)

\* The value null of a structure field.
null == "null"

supportedExtensions ==
    <<[ext |-> <<".", "j", "s">>, type |-> "javascript", priority |-> 1, category |-> "source"],
      [ext |-> <<".", "j", "s", "x">>, type |-> "javascript", priority |-> 1, category |-> "source"],
      [ext |-> <<".", "t", "s">>, type |-> "typescript", priority |-> 1, category |-> "source"],
      [ext |-> <<".", "t", "s", "x">>, type |-> "typescript", priority |-> 1, category |-> "source"],
      [ext |-> <<".", "p", "y">>, type |-> "python", priority |-> 1, category |-> "source"],
      [ext |-> <<".", "j", "a", "v", "a">>, type |-> "java", priority |-> 1, category |-> "source"],
      [ext |-> <<".", "c", "p", "p">>, type |-> "cpp", priority |-> 1, category |-> "source"],
      [ext |-> <<".", "c">>, type |-> "c", priority |-> 1, category |-> "source"],
      [ext |-> <<".", "c", "s">>, type |-> "csharp", priority |-> 1, category |-> "source"],
      [ext |-> <<".", "p", "h", "p">>, type |-> "php", priority |-> 1, category |-> "source"],
      [ext |-> <<".", "r", "b">>, type |-> "ruby", priority |-> 1, category |-> "source"],
      [ext |-> <<".", "g", "o">>, type |-> "go", priority |-> 1, category |-> "source"],
      [ext |-> <<".", "r", "s">>, type |-> "rust", priority |-> 1, category |-> "source"],
      [ext |-> <<".", "s", "w", "i", "f", "t">>, type |-> "swift", priority |-> 1, category |-> "source"],
      [ext |-> <<".", "k", "t">>, type |-> "kotlin", priority |-> 1, category |-> "source"],
      [ext |-> <<".", "s", "c", "a", "l", "a">>, type |-> "scala", priority |-> 1, category |-> "source"],
      [ext |-> <<".", "t", "e", "s", "t", ".", "j", "s">>, type |-> "javascript", priority |-> 2, category |-> "test"],
      [ext |-> <<".", "s", "p", "e", "c", ".", "j", "s">>, type |-> "javascript", priority |-> 2, category |-> "test"],
      [ext |-> <<".", "t", "e", "s", "t", ".", "t", "s">>, type |-> "typescript", priority |-> 2, category |-> "test"],
      [ext |-> <<".", "s", "p", "e", "c", ".", "t", "s">>, type |-> "typescript", priority |-> 2, category |-> "test"],
      [ext |-> <<".", "t", "e", "s", "t", ".", "p", "y">>, type |-> "python", priority |-> 2, category |-> "test"],
      [ext |-> <<".", "j", "s", "o", "n">>, type |-> "json", priority |-> 3, category |-> "config"],
      [ext |-> <<".", "y", "m", "l">>, type |-> "yaml", priority |-> 3, category |-> "config"],
      [ext |-> <<".", "y", "a", "m", "l">>, type |-> "yaml", priority |-> 3, category |-> "config"],
      [ext |-> <<".", "x", "m", "l">>, type |-> "xml", priority |-> 3, category |-> "config"],
      [ext |-> <<".", "t", "o", "m", "l">>, type |-> "toml", priority |-> 3, category |-> "config"],
      [ext |-> <<".", "m", "d">>, type |-> "markdown", priority |-> 4, category |-> "docs"],
      [ext |-> <<".", "t", "x", "t">>, type |-> "text", priority |-> 4, category |-> "docs"],
      [ext |-> <<".", "r", "s", "t">>, type |-> "restructuredtext", priority |-> 4, category |-> "docs"],
      [ext |-> <<".", "h", "t", "m", "l">>, type |-> "html", priority |-> 4, category |-> "web"],
      [ext |-> <<".", "c", "s", "s">>, type |-> "css", priority |-> 4, category |-> "web"],
      [ext |-> <<".", "s", "c", "s", "s">>, type |-> "scss", priority |-> 4, category |-> "web"],
      [ext |-> <<".", "l", "e", "s", "s">>, type |-> "less", priority |-> 4, category |-> "web"],
      [ext |-> <<".", "v", "u", "e">>, type |-> "vue", priority |-> 2, category |-> "source"],
      [ext |-> <<".", "s", "v", "e", "l", "t", "e">>, type |-> "svelte", priority |-> 2, category |-> "source"]>>

ignoredPaths ==
    <<
      <<"n", "o", "d", "e", "_", "m", "o", "d", "u", "l", "e", "s">>,
      <<".", "g", "i", "t">>,
      <<".", "v", "s", "c", "o", "d", "e">>,
      <<".", "i", "d", "e", "a">>,
      <<"d", "i", "s", "t">>,
      <<"b", "u", "i", "l", "d">>,
      <<"t", "a", "r", "g", "e", "t">>,
      <<"_", "_", "p", "y", "c", "a", "c", "h", "e", "_", "_">>,
      <<".", "p", "y", "t", "e", "s", "t", "_", "c", "a", "c", "h", "e">>,
      <<"c", "o", "v", "e", "r", "a", "g", "e">>,
      <<".", "n", "y", "c", "_", "o", "u", "t", "p", "u", "t">>,
      <<"l", "o", "g", "s">>,
      <<"*", ".", "l", "o", "g">>,
      <<".", "e", "n", "v">>,
      <<".", "e", "n", "v", ".", "l", "o", "c", "a", "l">>,
      <<".", "e", "n", "v", ".", "d", "e", "v", "e", "l", "o", "p", "m", "e", "n", "t">>,
      <<".", "e", "n", "v", ".", "p", "r", "o", "d", "u", "c", "t", "i", "o", "n">>,
      <<"p", "a", "c", "k", "a", "g", "e", "-", "l", "o", "c", "k", ".", "j", "s", "o", "n">>,
      <<"y", "a", "r", "n", ".", "l", "o", "c", "k">>,
      <<"P", "i", "p", "f", "i", "l", "e", ".", "l", "o", "c", "k">>,
      <<".", "D", "S", "_", "S", "t", "o", "r", "e">>,
      <<"T", "h", "u", "m", "b", "s", ".", "d", "b">>
    >>

importantConfigFiles ==
    <<
      <<"p", "a", "c", "k", "a", "g", "e", ".", "j", "s", "o", "n">>,
      <<"r", "e", "q", "u", "i", "r", "e", "m", "e", "n", "t", "s", ".", "t", "x", "t">>,
      <<"P", "i", "p", "f", "i", "l", "e">>,
      <<"p", "o", "m", ".", "x", "m", "l">>,
      <<"b", "u", "i", "l", "d", ".", "g", "r", "a", "d", "l", "e">>,
      <<"C", "a", "r", "g", "o", ".", "t", "o", "m", "l">>,
      <<"g", "o", ".", "m", "o", "d">>,
      <<"c", "o", "m", "p", "o", "s", "e", "r", ".", "j", "s", "o", "n">>,
      <<"G", "e", "m", "f", "i", "l", "e">>,
      <<"t", "s", "c", "o", "n", "f", "i", "g", ".", "j", "s", "o", "n">>,
      <<"j", "e", "s", "t", ".", "c", "o", "n", "f", "i", "g", ".", "j", "s">>,
      <<"w", "e", "b", "p", "a", "c", "k", ".", "c", "o", "n", "f", "i", "g", ".", "j", "s">>,
      <<"b", "a", "b", "e", "l", ".", "c", "o", "n", "f", "i", "g", ".", "j", "s">>,
      <<"e", "s", "l", "i", "n", "t", ".", "c", "o", "n", "f", "i", "g", ".", "j", "s">>,
      <<".", "e", "s", "l", "i", "n", "t", "r", "c">>,
      <<"p", "r", "e", "t", "t", "i", "e", "r", ".", "c", "o", "n", "f", "i", "g", ".", "j", "s">>,
      <<".", "p", "r", "e", "t", "t", "i", "e", "r", "r", "c">>,
      <<"d", "o", "c", "k", "e", "r", "-", "c", "o", "m", "p", "o", "s", "e", ".", "y", "m", "l">>,
      <<"D", "o", "c", "k", "e", "r", "f", "i", "l", "e">>,
      <<"M", "a", "k", "e", "f", "i", "l", "e">>
    >>

\* array.includes(x)
Listed(a, x) == \E k \in 1..Len(a) : a[k] = x

\* s.endsWith(suffix)
EndsWith(s, suffix) ==
    Len(suffix) <= Len(s) /\ Slice(s, Len(s) - Len(suffix) + 1, Len(s)) = suffix

\* The position of the last occurrence of character c in s, 0 when there is none.
LastIndexOf(s, c) ==
    IF \E i \in 1..Len(s) : s[i] = c
    THEN CHOOSE i \in 1..Len(s) : s[i] = c /\ \A j \in (i + 1)..Len(s) : s[j] # c
    ELSE 0

\* p without the slashes it ends with
WithoutTrailingSlashes(p) ==
    Slice(p, 1, IF \A i \in 1..Len(p) : p[i] = "/" THEN 0
                ELSE CHOOSE i \in 1..Len(p) :
                        p[i] # "/" /\ \A j \in (i + 1)..Len(p) : p[j] = "/")

\* What follows the last slash of p
LastComponent(p) == Slice(p, LastIndexOf(p, "/") + 1, Len(p))

\* path.basename(p) of the posix path module: the last component of p, the
\* slashes that end p set aside.
basename(p) == LastComponent(WithoutTrailingSlashes(p))

\* path.extname of a name with its last dot at position dot: from that dot to
\* the end, empty when there is no dot, when the only dot leads the name, and
\* for the name "..".
ExtFrom(name, dot) ==
    IF dot <= 1 \/ name = <<".", ".">> THEN <<>> ELSE Slice(name, dot, Len(name))
extname(p) == ExtFrom(basename(p), LastIndexOf(basename(p), "."))

\* s.split(c)
RECURSIVE Split(_, _)
SplitAt(s, c, at) ==
    IF at = {} THEN <<s>>
    ELSE <<Slice(s, 1, Least(at) - 1)>> \o Split(Slice(s, Least(at) + 1, Len(s)), c)
Split(s, c) == SplitAt(s, c, {i \in 1..Len(s) : s[i] = c})

\* `.${parts[parts.length - 2]}.${parts[parts.length - 1]}`
LastTwoParts(parts) == <<".">> \o parts[Len(parts) - 1] \o <<".">> \o parts[Len(parts)]

TestSuffixOr(fileName, parts) ==
    IF Len(parts) >= 3 THEN LastTwoParts(parts) ELSE extname(fileName)

getFileExtension(fileName) ==
    IF fileName = <<>> THEN <<>>
    ELSE IF Includes(fileName, <<".", "t", "e", "s", "t", ".">>) \/ Includes(fileName, <<".", "s", "p", "e", "c", ".">>)
    THEN TestSuffixOr(fileName, Split(fileName, "."))
    ELSE extname(fileName)

\* The characters a dot of a regular expression does not match
LineTerminators == {"\n", "\r", "\\u2028", "\\u2029"}

\* new RegExp(ignoredPath.replace(/\*/g, '.*')): a dot of the entry stands for
\* any one character but a line terminator, and a star for any run of such
\* characters; pat[k..] matches s from position i on.
RECURSIVE WildcardFrom(_, _, _, _)
WildcardFrom(pat, k, s, i) ==
    IF k > Len(pat) THEN TRUE
    ELSE IF pat[k] = "*"
    THEN \E j \in i..(Len(s) + 1) :
            /\ \A m \in i..(j - 1) : s[m] \notin LineTerminators
            /\ WildcardFrom(pat, k + 1, s, j)
    ELSE /\ i <= Len(s)
         /\ (pat[k] = "." /\ s[i] \notin LineTerminators) \/ (pat[k] # "." /\ pat[k] = s[i])
         /\ WildcardFrom(pat, k + 1, s, i + 1)

\* pattern.test(s): a match anywhere in s.
WildcardTest(pat, s) == \E i \in 1..(Len(s) + 1) : WildcardFrom(pat, 1, s, i)

IgnoredBy(ignoredPath, filePath, fileName) ==
    IF Includes(ignoredPath, <<"*">>)
    THEN WildcardTest(ignoredPath, fileName) \/ WildcardTest(ignoredPath, filePath)
    ELSE Includes(filePath, ignoredPath) \/ fileName = ignoredPath

shouldIgnoreFile(filePath, fileName) ==
    IF fileName = <<>> /\ filePath = <<>> THEN TRUE
    ELSE \E k \in 1..Len(ignoredPaths) : IgnoredBy(ignoredPaths[k], filePath, fileName)

\* file.name || (file.path ? path.basename(file.path) : 'unknown')
FileNameOf(file) ==
    IF file.name # <<>> THEN file.name
    ELSE IF file.path # <<>> THEN basename(file.path)
    ELSE <<"u", "n", "k", "n", "o", "w", "n">>

\* this.supportedExtensions[extension], the empty sequence when undefined
ExtensionEntries(extension) ==
    SelectSeq(supportedExtensions, LAMBDA e : e.ext = extension)

Supported(fileConfig) ==
    [shouldAnalyze |-> TRUE,
     type |-> fileConfig.type,
     category |-> fileConfig.category,
     priority |-> fileConfig.priority,
     importance |-> IF fileConfig.priority <= 2 THEN "high" ELSE "medium",
     reason |-> <<"Supported ", fileConfig.category, " file">>]

\* A variant of BySupportedExtension that fills in every field of an unsupported file.
UnsupportedFilled(entries) ==
    IF entries # <<>> THEN Supported(entries[1])
    ELSE [shouldAnalyze |-> FALSE, type |-> "unknown", category |-> "unknown", priority |-> 4,
          reason |-> <<"Unsupported file type">>]

BySupportedExtension(entries) ==
    IF entries # <<>> THEN Supported(entries[1])
    ELSE [shouldAnalyze |-> FALSE, type |-> "unknown", reason |-> <<"Unsupported file type">>]

\* The fields a result lacks are absent from the record.
AnalyzeNamed(fileName, filePath) ==
    IF shouldIgnoreFile(filePath, fileName)
    THEN [shouldAnalyze |-> FALSE, ignored |-> TRUE,
          reason |-> <<"File type or path is ignored">>]
    ELSE IF Listed(importantConfigFiles, fileName)
    THEN [shouldAnalyze |-> TRUE, type |-> "config", category |-> "config", priority |-> 2,
          importance |-> "high", reason |-> <<"Important configuration file">>]
    ELSE BySupportedExtension(ExtensionEntries(getFileExtension(fileName)))

analyzeFile(file) == AnalyzeNamed(FileNameOf(file), file.path)

\* { ...file, ...fileInfo }
Merge(file, fileInfo) ==
    [k \in DOMAIN file \cup DOMAIN fileInfo |->
        IF k \in DOMAIN fileInfo THEN fileInfo[k] ELSE file[k]]

HasCategory(fileInfo, category) ==
    "category" \in DOMAIN fileInfo /\ fileInfo.category = category

\* The files fs[k..] whose analysis infos[k] has the category, in input order.
RECURSIVE InCategory(_, _, _, _)
InCategory(fs, infos, k, category) ==
    IF k > Len(fs) THEN <<>>
    ELSE (IF HasCategory(infos[k], category) THEN <<fs[k]>> ELSE <<>>)
         \o InCategory(fs, infos, k + 1, category)

RECURSIVE Recommended(_, _, _)
Recommended(fs, infos, k) ==
    IF k > Len(fs) THEN <<>>
    ELSE (IF infos[k].shouldAnalyze THEN <<Merge(fs[k], infos[k])>> ELSE <<>>)
         \o Recommended(fs, infos, k + 1)

\* a.sort((a, b) => a.priority - b.priority): the sort is stable, entries of
\* equal priority keep their order.
InsertAt(sorted, x, n) == Slice(sorted, 1, n) \o <<x>> \o Slice(sorted, n + 1, Len(sorted))
InsertByPriority(sorted, x) ==
    InsertAt(sorted, x, Cardinality({i \in 1..Len(sorted) : sorted[i].priority <= x.priority}))
RECURSIVE SortByPriority(_)
SortByPriority(a) ==
    IF a = <<>> THEN <<>>
    ELSE InsertByPriority(SortByPriority(Slice(a, 1, Len(a) - 1)), a[Len(a)])

\* new Set of the fileInfo.type values, in order of first appearance
RECURSIVE Languages(_, _, _)
Languages(infos, k, acc) ==
    IF k > Len(infos) THEN acc
    ELSE Languages(infos, k + 1,
             IF "type" \in DOMAIN infos[k] /\ ~Listed(acc, infos[k].type)
             THEN Append(acc, infos[k].type) ELSE acc)

\* filesByType and filesByCategory
CountBy(infos, field) ==
    [v \in {infos[k][field] : k \in {i \in 1..Len(infos) : field \in DOMAIN infos[i]}} |->
        Cardinality({i \in 1..Len(infos) : field \in DOMAIN infos[i] /\ infos[i][field] = v})]

\* fileNames and filePaths of detectProjectStructure, empty ones filtered out
FileNames(fs) ==
    {IF fs[k].name # <<>> THEN fs[k].name ELSE basename(fs[k].path) : k \in 1..Len(fs)}
        \ {<<>>}
FilePaths(fs) == {fs[k].path : k \in 1..Len(fs)} \ {<<>>}

\* filePaths.some((p) => p.includes(sub))
SomePath(paths, sub) == \E p \in paths : Includes(p, sub)

JavascriptFramework(paths) ==
    IF SomePath(paths, <<"s", "r", "c", "/", "A", "p", "p", ".", "j", "s">>) \/ SomePath(paths, <<"s", "r", "c", "/", "A", "p", "p", ".", "t", "s", "x">>) THEN "react"
    ELSE IF \E p \in paths : Includes(p, <<"p", "a", "g", "e", "s", "/">>) /\ Includes(p, <<"_", "a", "p", "p", ".">>) THEN "nextjs"
    ELSE IF SomePath(paths, <<"n", "u", "x", "t", ".", "c", "o", "n", "f", "i", "g">>) THEN "nuxtjs"
    ELSE IF SomePath(paths, <<"a", "n", "g", "u", "l", "a", "r", ".", "j", "s", "o", "n">>) THEN "angular"
    ELSE IF SomePath(paths, <<"s", "v", "e", "l", "t", "e", ".", "c", "o", "n", "f", "i", "g">>) THEN "svelte"
    ELSE null

PythonFramework(names, paths) ==
    IF <<"m", "a", "n", "a", "g", "e", ".", "p", "y">> \in names THEN "django"
    ELSE IF SomePath(paths, <<"a", "p", "p", ".", "p", "y">>) \/ SomePath(paths, <<"f", "l", "a", "s", "k">>) THEN "flask"
    ELSE IF SomePath(paths, <<"f", "a", "s", "t", "a", "p", "i">>) \/ SomePath(paths, <<"m", "a", "i", "n", ".", "p", "y">>) THEN "fastapi"
    ELSE null

\* A variant of TypeRule that tries the markers in the reverse order.
TypeRuleReversed(names, paths) ==
    IF \E f \in names : EndsWith(f, <<".", "c", "s", "p", "r", "o", "j">>) \/ EndsWith(f, <<".", "s", "l", "n">>)
    THEN [type |-> "csharp", language |-> "csharp", buildTool |-> "dotnet",
          framework |-> null]
    ELSE IF <<"C", "a", "r", "g", "o", ".", "t", "o", "m", "l">> \in names
    THEN [type |-> "rust", language |-> "rust", buildTool |-> "cargo", framework |-> null]
    ELSE IF <<"g", "o", ".", "m", "o", "d">> \in names
    THEN [type |-> "go", language |-> "go", buildTool |-> "go", framework |-> null]
    ELSE IF <<"b", "u", "i", "l", "d", ".", "g", "r", "a", "d", "l", "e">> \in names
    THEN [type |-> "java", language |-> "java", buildTool |-> "gradle", framework |-> null]
    ELSE IF <<"p", "o", "m", ".", "x", "m", "l">> \in names
    THEN [type |-> "java", language |-> "java", buildTool |-> "maven",
          framework |-> IF SomePath(paths, <<"s", "p", "r", "i", "n", "g">>) THEN "spring" ELSE null]
    ELSE IF <<"r", "e", "q", "u", "i", "r", "e", "m", "e", "n", "t", "s", ".", "t", "x", "t">> \in names \/ <<"P", "i", "p", "f", "i", "l", "e">> \in names
            \/ <<"p", "y", "p", "r", "o", "j", "e", "c", "t", ".", "t", "o", "m", "l">> \in names
    THEN [type |-> "python", language |-> "python", buildTool |-> null,
          framework |-> PythonFramework(names, paths)]
    ELSE IF <<"p", "a", "c", "k", "a", "g", "e", ".", "j", "s", "o", "n">> \in names
    THEN [type |-> "javascript", language |-> null, buildTool |-> "npm",
          framework |-> JavascriptFramework(paths)]
    ELSE [type |-> "unknown", language |-> null, buildTool |-> null, framework |-> null]

\* The chain of type rules: the first marker that matches sets type, language,
\* buildTool and framework.
TypeRule(names, paths) ==
    IF <<"p", "a", "c", "k", "a", "g", "e", ".", "j", "s", "o", "n">> \in names
    THEN [type |-> "javascript", language |-> null, buildTool |-> "npm",
          framework |-> JavascriptFramework(paths)]
    ELSE IF <<"r", "e", "q", "u", "i", "r", "e", "m", "e", "n", "t", "s", ".", "t", "x", "t">> \in names \/ <<"P", "i", "p", "f", "i", "l", "e">> \in names
            \/ <<"p", "y", "p", "r", "o", "j", "e", "c", "t", ".", "t", "o", "m", "l">> \in names
    THEN [type |-> "python", language |-> "python", buildTool |-> null,
          framework |-> PythonFramework(names, paths)]
    ELSE IF <<"p", "o", "m", ".", "x", "m", "l">> \in names
    THEN [type |-> "java", language |-> "java", buildTool |-> "maven",
          framework |-> IF SomePath(paths, <<"s", "p", "r", "i", "n", "g">>) THEN "spring" ELSE null]
    ELSE IF <<"b", "u", "i", "l", "d", ".", "g", "r", "a", "d", "l", "e">> \in names
    THEN [type |-> "java", language |-> "java", buildTool |-> "gradle", framework |-> null]
    ELSE IF <<"g", "o", ".", "m", "o", "d">> \in names
    THEN [type |-> "go", language |-> "go", buildTool |-> "go", framework |-> null]
    ELSE IF <<"C", "a", "r", "g", "o", ".", "t", "o", "m", "l">> \in names
    THEN [type |-> "rust", language |-> "rust", buildTool |-> "cargo", framework |-> null]
    ELSE IF \E f \in names : EndsWith(f, <<".", "c", "s", "p", "r", "o", "j">>) \/ EndsWith(f, <<".", "s", "l", "n">>)
    THEN [type |-> "csharp", language |-> "csharp", buildTool |-> "dotnet",
          framework |-> null]
    ELSE [type |-> "unknown", language |-> null, buildTool |-> null, framework |-> null]

\* A variant of TestFrameworkRule that lets the manifest decide.
TestFrameworkByManifest(names, paths) ==
    IF <<"p", "a", "c", "k", "a", "g", "e", ".", "j", "s", "o", "n">> \in names THEN "jest"
    ELSE IF SomePath(paths, <<"t", "e", "s", "t", "_">>) THEN "pytest"
    ELSE null

TestFrameworkRule(names, paths) ==
    IF <<"j", "e", "s", "t", ".", "c", "o", "n", "f", "i", "g", ".", "j", "s">> \in names \/ SomePath(paths, <<"j", "e", "s", "t">>) THEN "jest"
    ELSE IF <<"c", "y", "p", "r", "e", "s", "s", ".", "j", "s", "o", "n">> \in names \/ SomePath(paths, <<"c", "y", "p", "r", "e", "s", "s">>) THEN "cypress"
    ELSE IF SomePath(paths, <<"p", "y", "t", "e", "s", "t">>) \/ SomePath(paths, <<"t", "e", "s", "t", "_">>) THEN "pytest"
    ELSE IF SomePath(paths, <<"u", "n", "i", "t", "t", "e", "s", "t">>) THEN "unittest"
    ELSE null

Structure(rule, testFramework) ==
    [type |-> rule.type,
     framework |-> rule.framework,
     buildTool |-> rule.buildTool,
     testFramework |-> testFramework,
     language |-> rule.language]

detectProjectStructure(fs) ==
    Structure(TypeRule(FileNames(fs), FilePaths(fs)),
              TestFrameworkRule(FileNames(fs), FilePaths(fs)))

\* A variant of OrDefault that always takes the default.
AlwaysDefault(a, b) == b

\* a || b on a structure field: b for null and for the empty string
OrDefault(a, b) == IF a = null \/ a = "" THEN b ELSE a

strategies(projectStructure) ==
    [javascript |->
        [testFramework |-> OrDefault(projectStructure.testFramework, "jest"),
         testFilePattern |-> "{filename}.test.js",
         testDirectory |-> "__tests__",
         mockingLibrary |-> IF projectStructure.framework = "react"
                            THEN "@testing-library/react" ELSE "jest"],
     typescript |->
        [testFramework |-> OrDefault(projectStructure.testFramework, "jest"),
         testFilePattern |-> "{filename}.test.ts",
         testDirectory |-> "__tests__",
         mockingLibrary |-> IF projectStructure.framework = "react"
                            THEN "@testing-library/react" ELSE "jest"],
     python |->
        [testFramework |-> OrDefault(projectStructure.testFramework, "pytest"),
         testFilePattern |-> "test_{filename}.py",
         testDirectory |-> "tests",
         mockingLibrary |-> "unittest.mock"],
     java |->
        [testFramework |-> "junit",
         testFilePattern |-> "{Filename}Test.java",
         testDirectory |-> "src/test/java",
         mockingLibrary |-> "mockito"],
     go |->
        [testFramework |-> "go test",
         testFilePattern |-> "{filename}_test.go",
         testDirectory |-> ".",
         mockingLibrary |-> "testify"],
     rust |->
        [testFramework |-> "cargo test",
         testFilePattern |-> "{filename}_test.rs",
         testDirectory |-> "tests",
         mockingLibrary |-> "mockall"]]

\* A variant of getTestGenerationStrategy without a default for the types the table
\* does not hold: their strategy has nothing set.
StrategyOrNothing(projectStructure) ==
    IF projectStructure.type \in DOMAIN strategies(projectStructure)
    THEN strategies(projectStructure)[projectStructure.type]
    ELSE [testFramework |-> null, testFilePattern |-> null, testDirectory |-> null,
          mockingLibrary |-> null]

\* strategies[projectStructure.type] || strategies.javascript: for a type that
\* names a member the table inherits, that member and no strategy.
getTestGenerationStrategy(projectStructure) ==
    IF projectStructure.type \in DOMAIN strategies(projectStructure)
    THEN strategies(projectStructure)[projectStructure.type]
    ELSE IF projectStructure.type \in InheritedNames
    THEN Inherited(InheritedSpelling[projectStructure.type])
    ELSE strategies(projectStructure).javascript

Analysis(fs, infos) ==
    [totalFiles |-> Len(fs),
     filesByType |-> CountBy(infos, "type"),
     filesByCategory |-> CountBy(infos, "category"),
     languages |-> Languages(infos, 1, <<>>),
     hasTests |-> \E k \in 1..Len(infos) : HasCategory(infos[k], "test"),
     testFiles |-> InCategory(fs, infos, 1, "test"),
     configFiles |-> InCategory(fs, infos, 1, "config"),
     sourceFiles |-> InCategory(fs, infos, 1, "source"),
     documentationFiles |-> InCategory(fs, infos, 1, "docs"),
     recommendedFilesForAnalysis |-> SortByPriority(Recommended(fs, infos, 1)),
     projectStructure |-> detectProjectStructure(fs)]

analyzeRepositoryStructure(fs) == Analysis(fs, [k \in 1..Len(fs) |-> analyzeFile(fs[k])])

\* The filter of selectFilesForTestGeneration
Selectable(file) ==
    file.category = "source" \/ (file.category = "config" /\ file.importance = "high")

\* A variant of the remaining slots that counts every slot as free.
EverySlot(limit, selectedFiles) == limit

\* maxFiles - selectedFiles.length
RemainingSlots(limit, selectedFiles) == limit - Len(selectedFiles)

\* The backfill with test files when slots remain
Backfilled(selectedFiles, testFiles, limit) ==
    IF Len(selectedFiles) < limit /\ Len(testFiles) > 0
    THEN selectedFiles \o FirstN(testFiles, RemainingSlots(limit, selectedFiles))
    ELSE selectedFiles

Selected(selectedFiles, projectStructure) ==
    [selectedFiles |-> selectedFiles,
     totalAnalyzed |-> Len(selectedFiles),
     projectStructure |-> projectStructure,
     testStrategy |-> getTestGenerationStrategy(projectStructure)]

SelectFrom(analysis, limit) ==
    Selected(Backfilled(FirstN(SelectSeq(analysis.recommendedFilesForAnalysis, Selectable),
                               limit),
                        analysis.testFiles, limit),
             analysis.projectStructure)

selectFilesForTestGeneration(fs, limit) == SelectFrom(analyzeRepositoryStructure(fs), limit)

----------------------------------------------------------------------------
(* Inputs: repository listings *)

MaxListed == 3      \* files of a listing drawn freely from Pool
MaxSelect == 4      \* the largest maxFiles asked for; the smallest is -1

RepoFile(name, path) == [name |-> name, path |-> path]

PackageJson == RepoFile(<<"p", "a", "c", "k", "a", "g", "e", ".", "j", "s", "o", "n">>, <<"p", "a", "c", "k", "a", "g", "e", ".", "j", "s", "o", "n">>)
PomXml == RepoFile(<<"p", "o", "m", ".", "x", "m", "l">>, <<"p", "o", "m", ".", "x", "m", "l">>)
AJs == RepoFile(<<"a", ".", "j", "s">>, <<"s", "r", "c", "/", "a", ".", "j", "s">>)
BPy == RepoFile(<<"b", ".", "p", "y">>, <<"s", "r", "c", "/", "b", ".", "p", "y">>)
XVue == RepoFile(<<"X", ".", "v", "u", "e">>, <<"c", "o", "m", "p", "o", "n", "e", "n", "t", "s", "/", "X", ".", "v", "u", "e">>)
AppVue == RepoFile(<<"A", "p", "p", ".", "v", "u", "e">>, <<"s", "r", "c", "/", "A", "p", "p", ".", "v", "u", "e">>)
WSvelte == RepoFile(<<"W", ".", "s", "v", "e", "l", "t", "e">>, <<"W", ".", "s", "v", "e", "l", "t", "e">>)
\* a record without a name
ERb == RepoFile(<<>>, <<"l", "i", "b", "/", "e", ".", "r", "b">>)
ATestJs == RepoFile(<<"a", ".", "t", "e", "s", "t", ".", "j", "s">>, <<"t", "e", "s", "t", "s", "/", "a", ".", "t", "e", "s", "t", ".", "j", "s">>)
BSpecTs == RepoFile(<<"b", ".", "s", "p", "e", "c", ".", "t", "s">>, <<"b", ".", "s", "p", "e", "c", ".", "t", "s">>)
ConfigYml == RepoFile(<<"c", "o", "n", "f", "i", "g", ".", "y", "m", "l">>, <<"c", "o", "n", "f", "i", "g", ".", "y", "m", "l">>)
LoginJs == RepoFile(<<"l", "o", "g", "i", "n", ".", "j", "s">>, <<"s", "r", "c", "/", "l", "o", "g", "i", "n", ".", "j", "s">>)
ReadmeMd == RepoFile(<<"R", "E", "A", "D", "M", "E", ".", "m", "d">>, <<"R", "E", "A", "D", "M", "E", ".", "m", "d">>)

Pool ==
    {PackageJson, AJs, BPy, AppVue, WSvelte, ATestJs, BSpecTs, ConfigYml, LoginJs, ReadmeMd}

\* The lists of n distinct files of S, in every order
Orderings(S, n) == {f \in [1..n -> S] : \A i, j \in 1..n : i # j => f[i] # f[j]}

Listings == UNION {Orderings(Pool, n) : n \in 0..MaxListed}

\* One manifest with five source files, in every order
Manifests == {PackageJson, PomXml}
Sources == {AJs, BPy, ERb, AppVue, WSvelte, XVue}
ManifestListings ==
    UNION {Orderings({m} \cup S, 6) : m \in Manifests, S \in {T \in SUBSET Sources : Cardinality(T) = 5}}

----------------------------------------------------------------------------
(* A call of selectFilesForTestGeneration *)

IdlePipeline ==
    /\ clock = 1
    /\ files = <<>>
    /\ config = [types |-> Undefined, complexity |-> Undefined, framework |-> Undefined]
    /\ text = <<>>
    /\ prompt = Undefined
    /\ reason = <<>>
    /\ result = <<>>
    /\ via = "none"
    /\ calls = 0

InitSelect ==
    /\ pc = "SelectCall"
    /\ \/ repoFiles \in Listings /\ maxFiles \in (-1)..MaxSelect
       \/ repoFiles \in ManifestListings /\ maxFiles = 3
    /\ selection = <<>>
    /\ IdlePipeline
    /\ IdleOthers

SelectCall ==
    /\ pc = "SelectCall"
    /\ pc' = "Selected"
    /\ selection' = selectFilesForTestGeneration(repoFiles, maxFiles)
    /\ UNCHANGED <<clock, files, config, text, prompt, reason, result, via, calls, repoFiles,
                   maxFiles, others>>

NextSelect == SelectCall

SpecSelect == InitSelect /\ [][NextSelect]_vars

----------------------------------------------------------------------------
(* Inputs: files to classify, listings of marker files, project structures *)

MaxMarkers == 2     \* files of a listing drawn from MarkerFiles

pipeline == <<clock, files, config, text, prompt, reason, result, via, calls>>
selecting == <<repoFiles, maxFiles, selection>>

OtherNames ==
    {<<"a", ".", "j", "s">>, <<"x", ".", "t", "e", "s", "t", ".", "j", "s">>, <<"x", ".", "t", "e", "s", "t", ".", "k", "t">>, <<"y", ".", "s", "p", "e", "c", ".", "m", "d">>, <<"c", "a", "t", "a", "l", "o", "g", ".", "m", "d">>, <<"d", "e", "b", "u", "g", ".", "l", "o", "g">>,
     <<"L", "I", "C", "E", "N", "S", "E">>, <<"b", ".", "x", "y", "z">>, <<".", "g", "i", "t", "i", "g", "n", "o", "r", "e">>, <<"y", "a", "r", "n", ".", "l", "o", "c", "k">>, <<"A", "p", "p", ".", "v", "u", "e">>,
     <<"f", "o", "o", ".", "s", "p", "e", "c", ".", "t", "s", "x">>, <<"a", ".", "t", "e", "s", "t", ".", "u", "t", "i", "l", "s", ".", "j", "s">>, <<"l", "o", "g", "i", "n", ".", "j", "s">>, <<"c", "a", "t", "a", "l", "o", "g", ".", "j", "s">>}
ClassifyNames == {importantConfigFiles[k] : k \in 1..Len(importantConfigFiles)} \cup OtherNames
Directories == {<<>>, <<"s", "r", "c", "/">>, <<"a", "p", "p", "/", "b", "u", "i", "l", "d", "/">>}

\* Records with a name and a path, with a name only, with a path only, with neither
ClassifyInputs ==
    {RepoFile(n, d \o n) : n \in ClassifyNames, d \in Directories}
        \cup {RepoFile(n, <<>>) : n \in ClassifyNames}
        \cup {RepoFile(<<>>, d \o n) : n \in ClassifyNames, d \in Directories}
        \cup {RepoFile(<<>>, <<>>), RepoFile(<<>>, <<"M", "a", "k", "e", "f", "i", "l", "e", "/">>), RepoFile(<<>>, <<"s", "r", "c", "/", "a", ".", "j", "s", "/", "/">>),
              RepoFile(<<>>, <<"s", "r", "c", "/", ".", ".">>), RepoFile(<<".", ".", ".">>, <<>>)}

AtRoot(name) == RepoFile(name, name)

MarkerFiles ==
    {AtRoot(<<"p", "a", "c", "k", "a", "g", "e", ".", "j", "s", "o", "n">>), AtRoot(<<"r", "e", "q", "u", "i", "r", "e", "m", "e", "n", "t", "s", ".", "t", "x", "t">>), AtRoot(<<"P", "i", "p", "f", "i", "l", "e">>),
     AtRoot(<<"p", "y", "p", "r", "o", "j", "e", "c", "t", ".", "t", "o", "m", "l">>), AtRoot(<<"p", "o", "m", ".", "x", "m", "l">>), AtRoot(<<"b", "u", "i", "l", "d", ".", "g", "r", "a", "d", "l", "e">>),
     AtRoot(<<"g", "o", ".", "m", "o", "d">>), AtRoot(<<"C", "a", "r", "g", "o", ".", "t", "o", "m", "l">>), AtRoot(<<"A", "p", "p", ".", "c", "s", "p", "r", "o", "j">>), AtRoot(<<"A", "l", "l", ".", "s", "l", "n">>),
     RepoFile(<<>>, <<"s", "u", "b", "/", "p", "o", "m", ".", "x", "m", "l">>),
     RepoFile(<<"A", "p", "p", ".", "j", "s">>, <<"s", "r", "c", "/", "A", "p", "p", ".", "j", "s">>), RepoFile(<<"m", "a", "n", "a", "g", "e", ".", "p", "y">>, <<"m", "a", "n", "a", "g", "e", ".", "p", "y">>),
     RepoFile(<<"t", "e", "s", "t", "_", "a", ".", "p", "y">>, <<"t", "e", "s", "t", "s", "/", "t", "e", "s", "t", "_", "a", ".", "p", "y">>), AtRoot(<<"j", "e", "s", "t", ".", "c", "o", "n", "f", "i", "g", ".", "j", "s">>),
     RepoFile(<<"m", "a", "i", "n", ".", "p", "y">>, <<"s", "p", "r", "i", "n", "g", "/", "m", "a", "i", "n", ".", "p", "y">>)}

MarkerListings == UNION {Orderings(MarkerFiles, n) : n \in 0..MaxMarkers}

\* Types of the table, types it does not hold, and two names it inherits
ProjectTypes ==
    {"unknown", "javascript", "typescript", "python", "java", "go", "rust", "csharp", "kotlin",
     "constructor", "__proto__"}

Structures ==
    [type : ProjectTypes,
     framework : {null, "react", "django"},
     buildTool : {null, "npm"},
     testFramework : {null, "", "jest", "pytest", "mocha"},
     language : {null, "python"}]

----------------------------------------------------------------------------
(* A direct call of analyzeFile, detectProjectStructure or getTestGenerationStrategy *)

InitAnalyze ==
    /\ \/ pc = "ClassifyCall" /\ subject \in ClassifyInputs
       \/ pc = "DetectCall" /\ subject \in MarkerListings
       \/ pc = "ResolveCall" /\ subject \in Structures
    /\ outcome = <<>>
    /\ earlier = <<>>
    /\ testCases = <<>>
    /\ visited = 0
    /\ request = <<>>
    /\ fetched = <<>>
    /\ response = <<>>
    /\ IdleSessions
    /\ IdlePipeline
    /\ IdleSelect

ClassifyCall ==
    /\ pc = "ClassifyCall"
    /\ pc' = "Classified"
    /\ outcome' = analyzeFile(subject)
    /\ UNCHANGED <<pipeline, selecting, sessions, subject, earlier, calling, request, fetched, response>>

DetectCall ==
    /\ pc = "DetectCall"
    /\ pc' = "Detected"
    /\ outcome' = detectProjectStructure(subject)
    /\ UNCHANGED <<pipeline, selecting, sessions, subject, earlier, calling, request, fetched, response>>

ResolveCall ==
    /\ pc = "ResolveCall"
    /\ pc' = "Resolved"
    /\ outcome' = getTestGenerationStrategy(subject)
    /\ UNCHANGED <<pipeline, selecting, sessions, subject, earlier, calling, request, fetched, response>>

NextAnalyze == ClassifyCall \/ DetectCall \/ ResolveCall

SpecAnalyze == InitAnalyze /\ [][NextAnalyze]_vars

----------------------------------------------------------------------------
(* Two calls of createFallbackTestCases in a row, on the same arguments;    *)
(* the second runs in the state the first has left                         *)

FallbackReasons == {AIFailed("quota exceeded"), <<"Parsing failed: ", "SyntaxError">>}

InitRepeat ==
    /\ clock = 1
    /\ pc = "FirstCall"
    /\ files \in FileLists \cup ExportLists \cup ManyLists \cup OddLists
    /\ config \in Configs
    /\ reason \in FallbackReasons
    /\ text = <<>>
    /\ prompt = Undefined
    /\ result = <<>>
    /\ via = "none"
    /\ calls = 0
    /\ IdleSelect
    /\ IdleOthers

Entered == {"FirstCall", "CalledOnce"}
Running == {"FirstRunning", "SecondRunning"}

\* A variant of EnterFallback that goes on with the array of the call before,
\* as a service that held the array in a field of its own would.
EnterKeeping(during) ==
    /\ pc' = during
    /\ visited' = 0
    /\ UNCHANGED testCases

\* const testCases = []: the call starts on a new array and at the first file.
EnterFallback(during) ==
    /\ pc' = during
    /\ testCases' = <<>>
    /\ visited' = 0

\* createFallbackTestCases is called with reason, files and config as they
\* stand, in whatever state the call before has left.
Enter ==
    /\ pc \in Entered
    /\ EnterFallback(IF pc = "FirstCall" THEN "FirstRunning" ELSE "SecondRunning")
    /\ UNCHANGED <<clock, files, config, text, prompt, reason, result, via, calls, selecting,
                   sessions, subject, outcome, earlier, request, fetched, response>>

\* The callback has run for one more file, or has thrown out of the call.
Visited(pushed) ==
    IF pushed.threw
    THEN /\ pc' = IF pc = "FirstRunning" THEN "FirstThrew" ELSE "SecondThrew"
         /\ UNCHANGED calling
    ELSE /\ testCases' = pushed.v
         /\ visited' = visited + 1
         /\ UNCHANGED pc

EachFile ==
    /\ pc \in Running
    /\ visited < Len(files)
    /\ Visited(ForFile(testCases, files[visited + 1], visited, config, clock))
    /\ UNCHANGED <<pipeline, selecting, sessions, subject, outcome, earlier, request, fetched,
                   response>>

\* return testCases: the caller holds the array in result, and in earlier what
\* the call before returned.
Return ==
    /\ pc \in Running
    /\ visited = Len(files)
    /\ pc' = IF pc = "FirstRunning" THEN "CalledOnce" ELSE "CalledTwice"
    /\ earlier' = result
    /\ result' = testCases
    /\ UNCHANGED <<clock, files, config, text, prompt, reason, via, calls, selecting, sessions,
                   subject, outcome, calling, request, fetched, response>>

\* A millisecond passes between the two calls.
TimePasses ==
    /\ pc = "CalledOnce"
    /\ clock = 1
    /\ clock' = clock + 1
    /\ UNCHANGED <<pc, files, config, text, prompt, reason, result, via, calls, selecting,
                   others>>

NextRepeat == Enter \/ EachFile \/ Return \/ TimePasses

SpecRepeat == InitRepeat /\ [][NextRepeat]_vars

----------------------------------------------------------------------------
(* POST /generate/repository: one request *)

MaxAsked == 2       \* the largest maxFiles a request body asks for

\* The items of a repository tree, and the trees getRepositoryTree answers with
Blob(path) == [path |-> path, type |-> "blob"]
Directory(path) == [path |-> path, type |-> "tree"]
RepoTrees ==
    {<<>>,
     <<Directory(<<"s", "r", "c">>), Blob(<<"s", "r", "c", "/", "a", ".", "j", "s">>)>>,
     <<Blob(<<"p", "a", "c", "k", "a", "g", "e", ".", "j", "s", "o", "n">>), Blob(<<"s", "r", "c", "/", "a", ".", "j", "s">>), Blob(<<"s", "r", "c", "/", "b", ".", "p", "y">>)>>,
     <<Blob(<<"s", "r", "c", "/", "b", ".", "p", "y">>), Blob(<<"t", "e", "s", "t", "s", "/", "a", ".", "t", "e", "s", "t", ".", "j", "s">>)>>,
     <<Blob(<<"R", "E", "A", "D", "M", "E", ".", "m", "d">>), Blob(<<"d", "i", "s", "t", "/", "a", ".", "j", "s">>)>>,
     <<Blob(<<"g", "o", ".", "m", "o", "d">>), Blob(<<"m", "a", "i", "n", ".", "g", "o">>)>>}

\* Request bodies, with whether the session has a GitHub client
OneAndHalf == Number(FALSE, <<"1", "5">>, 0 - 1)
Requests ==
    [owner : {Undefined, Str(<<"o", "c", "t", "o">>)},
     repo : {Str(<<"a", "p", "p">>)},
     branch : {Undefined, Str(<<"d", "e", "v">>)},
     maxFiles : {Undefined, OneAndHalf} \cup {Num(n) : n \in -1..MaxAsked},
     testType : {Undefined, Str(<<"e", "2", "e">>)},
     framework : {Undefined, Str(<<"m", "o", "c", "h", "a">>)},
     options : {Undefined, Obj(<<[k |-> <<"t", "y", "p", "e", "s">>, v |-> Str(<<"u", "n", "i", "t">>)]>>)},
     client : BOOLEAN]

\* What getFileContent answers with for a path: its decoded content and a size
ContentOf(path) ==
    IF EndsWith(path, <<".", "j", "s">>) THEN MathJs.content ELSE UtilPy.content
FileSizes == {120, 100000}

Pending == [state |-> "pending"]
Failed == [state |-> "failed"]
Fetched(path, size) == [state |-> "fetched", decodedContent |-> ContentOf(path), size |-> size]

\* History: a settled call carries in nth its rank among the settled calls of
\* the request, in the order of their completion.
SettledSoFar(contents) == Cardinality({k \in 1..Len(contents) : contents[k].state # "pending"})
Stamped(content, nth) ==
    [f \in DOMAIN content \cup {"nth"} |-> IF f = "nth" THEN nth ELSE content[f]]

RepoTexts == {CasesDoc(<<TitleX>>), <<"x">>}

\* tree.tree.filter((item) => item.type === 'blob').map(...): size and sha, which
\* nothing reads, are left out.
TreeFiles(tree) ==
    [k \in 1..Len(SelectSeq(tree, LAMBDA item : item.type = "blob")) |->
        [path |-> SelectSeq(tree, LAMBDA item : item.type = "blob")[k].path,
         name |-> LastComponent(SelectSeq(tree, LAMBDA item : item.type = "blob")[k].path)]]

\* branch = 'main', maxFiles = 10 and testType = 'unit' of the destructuring.
\* slice(0, maxFiles) takes the whole part of maxFiles, and the backfill of
\* selectFilesForTestGeneration adds nothing for a fraction of a slot.
BranchOf(body) == IF body.branch = Undefined THEN Str(<<"m", "a", "i", "n">>) ELSE body.branch
WholePart(v) == NumberOf(SubSeq(v.digits, 1, Len(v.digits) + v.e))
WholeOf(v) == IF v.neg THEN 0 - WholePart(v) ELSE WholePart(v)
MaxFilesOf(body) == IF body.maxFiles = Undefined THEN 10 ELSE WholeOf(body.maxFiles)
TestTypeOf(body) == IF body.testType = Undefined THEN Str(<<"u", "n", "i", "t">>) ELSE body.testType

\* The record built for a file whose content arrived; type, category and priority
\* are undefined (absent) for a test file of the backfill, which carries none.
FileContent(file, content) ==
    [f \in {"path", "name", "content", "size"}
            \cup (DOMAIN file \cap {"type", "category", "priority"}) |->
        CASE f = "path" -> file.path
          [] f = "name" -> file.name
          [] f = "content" -> content.decodedContent
          [] f = "size" -> content.size
          [] OTHER -> file[f]]

\* The valid contents of contents[k..], in the order of the selection
RECURSIVE ValidFrom(_, _, _)
ValidFrom(selectedFiles, contents, k) ==
    IF k > Len(contents) THEN <<>>
    ELSE (IF contents[k].state = "fetched" /\ contents[k].size < 100000
          THEN <<FileContent(selectedFiles[k], contents[k])>> ELSE <<>>)
         \o ValidFrom(selectedFiles, contents, k + 1)

\* A variant of ValidContents that takes the contents in the order in which the
\* calls completed.
RECURSIVE AsCompleted(_, _, _)
AsCompleted(selectedFiles, contents, nth) ==
    IF nth > Len(contents) THEN <<>>
    ELSE ValidFrom(<<selectedFiles[CHOOSE k \in 1..Len(contents) : contents[k].nth = nth]>>,
                   <<contents[CHOOSE k \in 1..Len(contents) : contents[k].nth = nth]>>, 1)
         \o AsCompleted(selectedFiles, contents, nth + 1)
ValidAsCompleted(selectedFiles, contents) == AsCompleted(selectedFiles, contents, 1)

\* fileContents.filter(Boolean).filter((file) => file.size < 100000)
ValidContents(selectedFiles, contents) == ValidFrom(selectedFiles, contents, 1)

\* The test frameworks of the strategy table, as the strings they are
FrameworkSpelling ==
    [f \in {"jest", "cypress", "pytest", "unittest", "junit", "go test", "cargo test"} |->
        CASE f = "jest" -> <<"j", "e", "s", "t">>
          [] f = "cypress" -> <<"c", "y", "p", "r", "e", "s", "s">>
          [] f = "pytest" -> <<"p", "y", "t", "e", "s", "t">>
          [] f = "unittest" -> <<"u", "n", "i", "t", "t", "e", "s", "t">>
          [] f = "junit" -> <<"j", "u", "n", "i", "t">>
          [] f = "go test" -> <<"g", "o", " ", "t", "e", "s", "t">>
          [] f = "cargo test" -> <<"c", "a", "r", "g", "o", " ", "t", "e", "s", "t">>]

\* framework || analysisResult.testStrategy.testFramework
FrameworkOf(body, testStrategy) ==
    IF Truthy(body.framework) THEN body.framework
    ELSE Str(FrameworkSpelling[testStrategy.testFramework])

\* { key: own, ...options }: the value of options for the key when it has one
Spread(own, options, key) ==
    IF options = Undefined THEN own
    ELSE IF Get(options, key) = Undefined THEN own
    ELSE Get(options, key)

\* The config handed to generateTestCases: { types: [testType], framework, ...options };
\* its projectStructure and testStrategy are read by nothing there.
RouteConfig(body, testStrategy) ==
    [types |-> Spread(Arr(<<TestTypeOf(body)>>), body.options, <<"t", "y", "p", "e", "s">>),
     complexity |-> Spread(Undefined, body.options, <<"c", "o", "m", "p", "l", "e", "x", "i", "t", "y">>),
     framework |-> Spread(FrameworkOf(body, testStrategy), body.options, <<"f", "r", "a", "m", "e", "w", "o", "r", "k">>)]

Answer(status, body) == [status |-> status, body |-> body]

InitRepository ==
    /\ clock = 1
    /\ pc = "Received"
    /\ request \in Requests
    /\ files = <<>>
    /\ config = [types |-> Undefined, complexity |-> Undefined, framework |-> Undefined]
    /\ text = <<>>
    /\ prompt = Undefined
    /\ reason = <<>>
    /\ result = <<>>
    /\ via = "none"
    /\ calls = 0
    /\ IdleSelect
    /\ IdleSessions
    /\ subject = <<>>
    /\ outcome = <<>>
    /\ earlier = <<>>
    /\ testCases = <<>>
    /\ visited = 0
    /\ fetched = <<>>
    /\ response = <<>>

\* The check of owner and repo, and getGitHubClient, which throws into the catch
\* block when the session has no client.
Receive ==
    /\ pc = "Received"
    /\ IF ~Truthy(request.owner) \/ ~Truthy(request.repo)
       THEN /\ pc' = "Responded"
            /\ response' = Answer(400, [error |-> "Repository owner and name are required"])
       ELSE IF ~request.client
       THEN /\ pc' = "Responded"
            /\ response' = Answer(500, [error |-> "Failed to generate repository test cases",
                                        message |-> "GitHub client not found for session"])
       ELSE /\ pc' = "AwaitingTree"
            /\ UNCHANGED response
    /\ UNCHANGED <<pipeline, selecting, sessions, subject, outcome, earlier, calling, request, fetched>>

\* getRepositoryTree resolves: the blobs are listed, the files selected and one
\* getFileContent call started for each of the first maxFiles selected files.
TreeListed(tree) ==
    /\ pc = "AwaitingTree"
    /\ pc' = "Fetching"
    /\ repoFiles' = TreeFiles(tree)
    /\ maxFiles' = MaxFilesOf(request)
    /\ selection' = selectFilesForTestGeneration(TreeFiles(tree), MaxFilesOf(request))
    /\ fetched' = [k \in 1..Len(FirstN(selection'.selectedFiles, MaxFilesOf(request))) |-> Pending]
    /\ UNCHANGED <<pipeline, sessions, subject, outcome, earlier, calling, request, response>>

\* getRepositoryTree rejects: the catch block answers.
TreeFails ==
    /\ pc = "AwaitingTree"
    /\ pc' = "Responded"
    /\ response' = Answer(500, [error |-> "Failed to generate repository test cases",
                                message |-> "tree"])
    /\ UNCHANGED <<pipeline, selecting, sessions, subject, outcome, earlier, calling, request, fetched>>

\* The getFileContent call of the k-th file resolves with a content of some size.
FetchSucceeds(k, size) ==
    /\ pc = "Fetching"
    /\ k \in 1..Len(fetched)
    /\ fetched[k].state = "pending"
    /\ fetched' = [fetched EXCEPT ![k] = Stamped(Fetched(selection.selectedFiles[k].path, size),
                                                 SettledSoFar(fetched) + 1)]
    /\ UNCHANGED <<pipeline, pc, selecting, sessions, subject, outcome, earlier, calling, request, response>>

\* The getFileContent call of the k-th file rejects: its catch block logs the
\* error and returns null.
FetchFails(k) ==
    /\ pc = "Fetching"
    /\ k \in 1..Len(fetched)
    /\ fetched[k].state = "pending"
    /\ fetched' = [fetched EXCEPT ![k] = Stamped(Failed, SettledSoFar(fetched) + 1)]
    /\ UNCHANGED <<pipeline, pc, selecting, sessions, subject, outcome, earlier, calling, request, response>>

\* Promise.all has resolved: without a valid file the request is answered with
\* 400, else generateTestCases is called.
Gathered(valid) ==
    IF valid = <<>>
    THEN /\ pc' = "Responded"
         /\ response' = Answer(400, [error |-> "No suitable files found for test generation"])
         /\ UNCHANGED <<files, config>>
    ELSE /\ pc' = "Prompting"
         /\ files' = valid
         /\ config' = RouteConfig(request, selection.testStrategy)
         /\ UNCHANGED response

Gather ==
    /\ pc = "Fetching"
    /\ \A k \in 1..Len(fetched) : fetched[k].state # "pending"
    /\ Gathered(ValidContents(selection.selectedFiles, fetched))
    /\ UNCHANGED <<clock, text, prompt, reason, result, via, calls, selecting, sessions, subject, outcome,
                   earlier, calling, request, fetched>>

\* generateTestCases has settled: the success response, or that of the catch
\* block when it rejected.
Respond ==
    /\ pc \in {"Done", "Rejected"}
    /\ pc' = "Responded"
    /\ response' =
          IF pc = "Rejected"
          THEN Answer(500, [error |-> "Failed to generate repository test cases",
                            message |-> "TypeError"])
          ELSE Answer(200,
                 [success |-> TRUE,
                  repository |-> [owner |-> request.owner, repo |-> request.repo,
                                  branch |-> BranchOf(request)],
                  analysis |-> [totalFiles |-> Len(repoFiles),
                                selectedFiles |-> Len(selection.selectedFiles),
                                analyzedFiles |-> Len(files),
                                projectStructure |-> selection.projectStructure,
                                testStrategy |-> selection.testStrategy],
                  testCases |-> result,
                  metadata |-> [testType |-> TestTypeOf(request),
                                framework |-> FrameworkOf(request, selection.testStrategy),
                                generatedAt |-> IsoTime(clock)]])
    /\ UNCHANGED <<pipeline, selecting, sessions, subject, outcome, earlier, calling, request, fetched>>

NextRepository ==
    \/ Receive
    \/ \E tree \in RepoTrees : TreeListed(tree)
    \/ TreeFails
    \/ \E k \in DOMAIN fetched, size \in FileSizes : FetchSucceeds(k, size)
    \/ \E k \in DOMAIN fetched : FetchFails(k)
    \/ Gather
    \/ BuildPrompt
    \/ ModelAnswers
    \/ \E txt \in RepoTexts : ResponseRead(txt)
    \/ \E err \in ResponseErrors : ResponseFails(err)
    \/ \E err \in ModelErrors : ModelFails(err)
    \/ Parse
    \/ Fallback
    \/ Respond

SpecRepository == InitRepository /\ [][NextRepository]_vars

----------------------------------------------------------------------------
(* routes/auth.js: the session store.  A session id is the rank of its     *)
(* login: crypto.randomBytes(32) gives an id that was never handed out     *)
(* before.  A Map is a function on the set of its keys.                    *)

MaxSessions == 2    \* logins that succeeded or wait for GitHub
MaxHalfDays == 2    \* spans of about twelve hours that pass

SESSION_TIMEOUT == 24 * 60 * 60 * 1000
HalfDay == 12 * 60 * 60 * 1000

\* map.set(key, value) and map.delete(key)
MapSet(map, key, value) ==
    [k \in DOMAIN map \cup {key} |-> IF k = key THEN value ELSE map[k]]
MapDelete(map, key) == [k \in DOMAIN map \ {key} |-> map[k]]

\* The Authorization header of a request: none, or Bearer and a session id
NoHeader == 0
Headers == {NoHeader} \cup 1..MaxSessions

\* The body of a POST /github request: a token and a code, each given or not
Absent == <<>>
Tokens == {<<"ghp_", "a">>, <<"gho_", "c">>}
Codes == {<<"c0de">>}
LoginBodies == [token : {Absent} \cup Tokens, code : {Absent} \cup Codes]

\* What GitHub answers to users.getAuthenticated: the data of a user, or an
\* error with its status (0 when the request did not get through)
NoStatus == 0
AnonUser ==
    [id |-> 8, login |-> Str(<<"a", "n", "o", "n">>), name |-> Null, email |-> Str(<<"a", "@", "x", ".", "i", "o">>),
     avatar_url |-> Str(<<"a", ".", "p", "n", "g">>)]
NoLogin == [id |-> 9, login |-> Undefined, name |-> Null, email |-> Null, avatar_url |-> Null]
UserAnswers ==
    {[ok |-> TRUE, data |-> u] : u \in {AnonUser, NoLogin}}
        \cup {[ok |-> FALSE, status |-> st] : st \in {401, 403, NoStatus}}

\* What the fetch of the token exchange gives: no answer, an answer that is
\* not ok, or an ok one
FetchAnswers == {"down", "refused", "ok"}
\* What the body of an ok answer reads as: no JSON, an OAuth error, an answer
\* without access_token, or an access token
ExchangeAnswers == {<<"unreadable">>, <<"error">>, <<"none">>} \cup Tokens

\* A variant of Expired that counts from the last access.
ExpiredIdle(session, now) == now - session.lastAccessed > SESSION_TIMEOUT

\* Date.now() - session.createdAt > SESSION_TIMEOUT
Expired(session, now) == now - session.createdAt > SESSION_TIMEOUT

Touched(session, now) == [session EXCEPT !.lastAccessed = now]

Refused(status, error, store, clients) ==
    [next |-> FALSE, status |-> status, error |-> error, sessions |-> store, clients |-> clients]

\* The middleware: what it answers when it does not call next, and the two
\* maps as it leaves them.
validateSession(store, clients, sessionId, now) ==
    IF sessionId = NoHeader
    THEN Refused(401, "No session token provided", store, clients)
    ELSE IF sessionId \notin DOMAIN store
    THEN Refused(401, "Invalid or expired session", store, clients)
    ELSE IF Expired(store[sessionId], now)
    THEN Refused(401, "Session expired", MapDelete(store, sessionId),
                 MapDelete(clients, sessionId))
    ELSE [next |-> TRUE, status |-> 200, error |-> "",
          sessions |-> MapSet(store, sessionId, Touched(store[sessionId], now)),
          clients |-> clients]

\* The user a session keeps: name is user.name || user.login.
SessionUser(user) ==
    [id |-> user.id, login |-> user.login, name |-> OrElse(user.name, user.login),
     email |-> user.email, avatar_url |-> user.avatar_url]

\* A variant of Opened that stores the session without its client.
OpenedWithoutClient(store, clients, sessionId, accessToken, user, now) ==
    [sessions |-> MapSet(store, sessionId,
                         [sessionId |-> sessionId, accessToken |-> accessToken,
                          user |-> SessionUser(user), createdAt |-> now, lastAccessed |-> now]),
     clients |-> clients]

\* handleTokenAuth, once the user is known: the session and its client are stored.
Opened(store, clients, sessionId, accessToken, user, now) ==
    [sessions |-> MapSet(store, sessionId,
                         [sessionId |-> sessionId, accessToken |-> accessToken,
                          user |-> SessionUser(user), createdAt |-> now, lastAccessed |-> now]),
     clients |-> MapSet(clients, sessionId, [token |-> accessToken])]

\* GitHubService.getUser: the data of the user, or a new Error, one without a
\* status, whatever GitHub answered.
getUser(answer) ==
    IF answer.ok /\ Truthy(answer.data.login) THEN [threw |-> FALSE, v |-> answer.data]
    ELSE [threw |-> TRUE, v |-> [status |-> NoStatus]]

\* The sessions a cleanup finds expired.
ExpiredIds(store, now) == {k \in DOMAIN store : Expired(store[k], now)}

cleanupExpiredSessions(store, clients, now) ==
    [sessions |-> [k \in DOMAIN store \ ExpiredIds(store, now) |-> store[k]],
     clients |-> [k \in DOMAIN clients \ ExpiredIds(store, now) |-> clients[k]]]

\* routes/testcases: [threw, v]
getGitHubClient(clients, sessionId) ==
    IF sessionId \in DOMAIN clients THEN [threw |-> FALSE, v |-> clients[sessionId]]
    ELSE [threw |-> TRUE, v |-> <<>>]

InitSessions ==
    /\ pc = "Serving"
    /\ activeSessions = <<>>
    /\ githubClients = <<>>
    /\ issued = <<>>
    /\ loggedOut = <<>>
    /\ oauthConfigured \in BOOLEAN
    /\ authenticating = <<>>
    /\ request = <<>>
    /\ response = <<>>
    /\ subject = <<>>
    /\ outcome = <<>>
    /\ earlier = <<>>
    /\ testCases = <<>>
    /\ visited = 0
    /\ fetched = <<>>
    /\ IdlePipeline
    /\ IdleSelect

\* A request as its handler leaves it: sessionId and githubToken are what the
\* middleware set (0 and the empty token when it did not call next), at is the
\* time at which it was served.
Served(route, header, sessionId, githubToken) ==
    [route |-> route, authorization |-> header, sessionId |-> sessionId,
     githubToken |-> githubToken, at |-> clock]

Unauthenticated(route, header) == Served(route, header, NoHeader, <<>>)

SessionsKept == UNCHANGED <<activeSessions, githubClients, issued, loggedOut>>

\* A POST /github request is answered; waiting are the requests that still wait.
Answers(status, body, waiting) ==
    /\ request' = Unauthenticated("github", NoHeader)
    /\ response' = Answer(status, body)
    /\ outcome' = <<>>
    /\ authenticating' = waiting

\* A POST /github request reaches an await.
Awaits(waiting) ==
    /\ authenticating' = waiting
    /\ UNCHANGED <<request, response, outcome>>

Settled(waiting, k) == SubSeq(waiting, 1, k - 1) \o SubSeq(waiting, k + 1, Len(waiting))

\* handleTokenAuth up to await githubService.getUser()
TokenAuth(accessToken, waiting) ==
    IF Head(accessToken) \notin {"ghp_", "github_pat_"}
    THEN Answers(400, [error |-> "Invalid GitHub token format"], waiting)
    ELSE Awaits(Append(waiting, [awaiting |-> "getUser", accessToken |-> accessToken]))

\* handleOAuthFlow up to await fetch(...)
OAuthFlow(waiting) ==
    IF ~oauthConfigured
    THEN Answers(500, [error |-> "GitHub OAuth not configured on server"], waiting)
    ELSE Awaits(Append(waiting, [awaiting |-> "token", accessToken |-> Absent]))

\* router.post('/github') up to the first await of the request
Posted(body) ==
    IF body.token # Absent THEN TokenAuth(body.token, authenticating)
    ELSE IF body.code # Absent THEN OAuthFlow(authenticating)
    ELSE Answers(400, [error |-> "Either token or authorization code is required"],
                 authenticating)

Login ==
    /\ pc = "Serving"
    /\ Len(issued) + Len(authenticating) < MaxSessions
    /\ \E body \in LoginBodies : Posted(body)
    /\ UNCHANGED <<pipeline, pc, selecting, subject, earlier, calling, fetched, activeSessions,
                   githubClients, issued, loggedOut, oauthConfigured>>

\* handleOAuthFlow from the answer of fetch up to await tokenResponse.json():
\* what it throws reaches the catch block of the route.
Responded(answer, waiting) ==
    IF answer # "ok"
    THEN Answers(500, [error |-> "Authentication failed"], waiting)
    ELSE Awaits(Append(waiting, [awaiting |-> "json", accessToken |-> Absent]))

\* The fetch of a waiting request settles.
FetchSettles ==
    /\ pc = "Serving"
    /\ \E k \in DOMAIN authenticating, answer \in FetchAnswers :
          /\ authenticating[k].awaiting = "token"
          /\ Responded(answer, Settled(authenticating, k))
    /\ UNCHANGED <<pipeline, pc, selecting, subject, earlier, calling, fetched, activeSessions,
                   githubClients, issued, loggedOut, oauthConfigured>>

\* The rest of handleOAuthFlow: a body that is no JSON throws into the catch
\* block of the route.
Exchanged(answer, waiting) ==
    IF answer = <<"unreadable">>
    THEN Answers(500, [error |-> "Authentication failed"], waiting)
    ELSE IF answer = <<"error">>
    THEN Answers(400, [error |-> "GitHub OAuth error"], waiting)
    ELSE IF answer = <<"none">>
    THEN Answers(400, [error |-> "Failed to obtain access token"], waiting)
    ELSE TokenAuth(answer, waiting)

\* The body of the answer to a waiting request is read.
TokenSettles ==
    /\ pc = "Serving"
    /\ \E k \in DOMAIN authenticating, answer \in ExchangeAnswers :
          /\ authenticating[k].awaiting = "json"
          /\ Exchanged(answer, Settled(authenticating, k))
    /\ UNCHANGED <<pipeline, pc, selecting, subject, earlier, calling, fetched, activeSessions,
                   githubClients, issued, loggedOut, oauthConfigured>>

\* The catch block of handleTokenAuth; what it throws again reaches the catch
\* block of the route.
TokenAuthCaught(error, waiting) ==
    /\ IF error.status = 401 THEN Answers(401, [error |-> "Invalid GitHub token"], waiting)
       ELSE IF error.status = 403
       THEN Answers(403, [error |-> "Insufficient permissions"], waiting)
       ELSE Answers(500, [error |-> "Authentication failed"], waiting)
    /\ SessionsKept

\* The rest of handleTokenAuth.
UserKnown(accessToken, user, waiting) ==
    IF user.threw
    THEN TokenAuthCaught(user.v, waiting)
    ELSE /\ activeSessions' = Opened(activeSessions, githubClients, Len(issued) + 1,
                                     accessToken, user.v, clock).sessions
         /\ githubClients' = Opened(activeSessions, githubClients, Len(issued) + 1,
                                    accessToken, user.v, clock).clients
         /\ issued' = Append(issued, clock)
         /\ Answers(200, [success |-> TRUE, sessionId |-> Len(issued) + 1,
                          user |-> SessionUser(user.v), expiresIn |-> SESSION_TIMEOUT,
                          expiresAt |-> clock + SESSION_TIMEOUT], waiting)
         /\ UNCHANGED loggedOut

\* The getUser call of a waiting request settles.
UserSettles ==
    /\ pc = "Serving"
    /\ \E k \in DOMAIN authenticating, answer \in UserAnswers :
          /\ authenticating[k].awaiting = "getUser"
          /\ UserKnown(authenticating[k].accessToken, getUser(answer), Settled(authenticating, k))
    /\ UNCHANGED <<pipeline, pc, selecting, subject, earlier, calling, fetched, oauthConfigured>>

\* The handler behind the middleware, for a request the middleware let through.
Handled(route, header, store, clients) ==
    /\ request' = Served(route, header, header, store[header].accessToken)
    /\ CASE route = "me" ->
              /\ response' = Answer(200, [user |-> store[header].user, sessionId |-> header,
                                          expiresAt |-> store[header].createdAt + SESSION_TIMEOUT,
                                          authenticated |-> TRUE])
              /\ activeSessions' = store
              /\ githubClients' = clients
              /\ outcome' = <<>>
              /\ UNCHANGED loggedOut
         [] route = "logout" ->
              /\ response' = Answer(200, [success |-> TRUE, message |-> "Logged out successfully"])
              /\ activeSessions' = MapDelete(store, header)
              /\ githubClients' = MapDelete(clients, header)
              /\ loggedOut' = Append(loggedOut, header)
              /\ outcome' = <<>>
         [] route = "generate" ->
              /\ outcome' = getGitHubClient(clients, header)
              /\ response' =
                    IF getGitHubClient(clients, header).threw
                    THEN Answer(500, [error |-> "Failed to generate repository test cases",
                                      message |-> "GitHub client not found for session"])
                    ELSE <<>>
              /\ activeSessions' = store
              /\ githubClients' = clients
              /\ UNCHANGED loggedOut

\* A request to a route behind validateSession: GET /me, POST /logout, or
\* POST /generate/repository up to its getGitHubClient call: outcome is what the
\* call returned, and with a client the request is not answered yet.
Validated(route, header, v) ==
    IF v.next
    THEN Handled(route, header, v.sessions, v.clients)
    ELSE /\ request' = Unauthenticated(route, header)
         /\ response' = Answer(v.status, [error |-> v.error])
         /\ activeSessions' = v.sessions
         /\ githubClients' = v.clients
         /\ outcome' = <<>>
         /\ UNCHANGED loggedOut

Protected ==
    /\ pc = "Serving"
    /\ \E route \in {"me", "logout", "generate"}, header \in Headers :
          Validated(route, header, validateSession(activeSessions, githubClients, header, clock))
    /\ UNCHANGED <<pipeline, pc, selecting, issued, logins, subject, earlier, calling, fetched>>

\* GET /status
StatusOf(header) ==
    /\ request' = Unauthenticated("status", header)
    /\ IF header = NoHeader \/ header \notin DOMAIN activeSessions
       THEN /\ response' = Answer(200, [authenticated |-> FALSE,
                                        reason |-> "No valid session found"])
            /\ UNCHANGED <<activeSessions, githubClients>>
       ELSE IF Expired(activeSessions[header], clock)
       THEN /\ response' = Answer(200, [authenticated |-> FALSE, reason |-> "Session expired"])
            /\ activeSessions' = MapDelete(activeSessions, header)
            /\ githubClients' = MapDelete(githubClients, header)
       ELSE /\ response' =
                  Answer(200, [authenticated |-> TRUE, user |-> activeSessions[header].user,
                               sessionId |-> header,
                               expiresAt |-> activeSessions[header].createdAt + SESSION_TIMEOUT,
                               timeRemaining |-> activeSessions[header].createdAt
                                                    + SESSION_TIMEOUT - clock])
            /\ activeSessions' = MapSet(activeSessions, header,
                                        Touched(activeSessions[header], clock))
            /\ UNCHANGED githubClients

Status ==
    /\ pc = "Serving"
    /\ \E header \in Headers : StatusOf(header)
    /\ outcome' = <<>>
    /\ UNCHANGED <<pipeline, pc, selecting, issued, loggedOut, logins, subject, earlier, calling, fetched>>

\* The hourly timer fires.
Cleanup ==
    /\ pc = "Serving"
    /\ activeSessions' = cleanupExpiredSessions(activeSessions, githubClients, clock).sessions
    /\ githubClients' = cleanupExpiredSessions(activeSessions, githubClients, clock).clients
    /\ UNCHANGED <<pipeline, pc, selecting, issued, loggedOut, logins, subject, outcome, earlier, calling,
                   request, fetched, response>>

\* Time passes between two requests: twelve hours, or a millisecond more.
Tick ==
    /\ pc = "Serving"
    /\ \E d \in {HalfDay, HalfDay + 1} :
          /\ clock + d <= MaxHalfDays * (HalfDay + 1) + 1
          /\ clock' = clock + d
    /\ UNCHANGED <<pc, files, config, text, prompt, reason, result, via, calls, selecting,
                   others>>

NextSessions == Login \/ FetchSettles \/ TokenSettles \/ UserSettles \/ Protected \/ Status \/ Cleanup \/ Tick

SpecSessions == InitSessions /\ [][NextSessions]_vars

----------------------------------------------------------------------------
(* Properties of the response parser, checked under SpecParse *)

ParseEnded == pc \in {"ParseReturned", "ParseThrew"}

\* The three strategies, each taken alone on the response text: the parse of
\* the whole trimmed text, of the first fenced block, of the span from the
\* first "{" to the last "}" around a quoted testCases key.
ParseOfMatch(m) == IF m.ok THEN JSONparse(m.v) ELSE ParseFail
StrategyA == JSONparse(Trim(text))
StrategyB == ParseOfMatch(CodeBlockMatch(text))
StrategyC == ParseOfMatch(JsonMatch(text))

\* The testCases member of a parsed value.
CasesOfValue(v) == Get(v, <<"t", "e", "s", "t", "C", "a", "s", "e", "s">>)

\* An entry on which the normalisation raises a TypeError: null, a code that
\* is neither falsy nor a string while no function name is given, or a missing
\* code when there is no first file to render the template for.
EntryFails(e) ==
    \/ Nullish(e)
    \/ /\ ~Truthy(Get(e, <<"f", "u", "n", "c", "t", "i", "o", "n">>))
       /\ Truthy(Get(e, <<"c", "o", "d", "e">>))
       /\ Get(e, <<"c", "o", "d", "e">>).t # "str"
    \/ ~Truthy(Get(e, <<"c", "o", "d", "e">>)) /\ files = <<>>

ListNormalises(list) == list.t = "arr" /\ \A k \in 1..Len(list.a) : ~EntryFails(list.a[k])

\* A strategy's parse p yields a usable document: a truthy value whose
\* testCases member is an array of entries that normalise.
Usable(p) == p.ok /\ Truthy(p.v) /\ ListNormalises(CasesOfValue(p.v))

\* A strategy's parse p ends the search: it parsed to a truthy value.
Settles(p) == p.ok /\ Truthy(p.v)

\* C2: parseTestCasesResponse never throws, for every response text, every list
\* of file records and every config.
C2_ParseNeverThrows == pc # "ParseThrew"

\* C3: the three strategies are tried in order and the first that yields a
\* usable testCases array wins: the parser answers by (a) whenever (a) yields
\* one, by (b) whenever (a) does not and (b) does, by (c) whenever (a) and (b)
\* do not and (c) does, and by the fallback generator only when none of the
\* three does.
C3_FirstSuccessWins ==
    ParseEnded =>
        /\ via = "direct" <=> Usable(StrategyA)
        /\ via = "block" <=> ~Usable(StrategyA) /\ Usable(StrategyB)
        /\ via = "scan" <=> ~Usable(StrategyA) /\ ~Usable(StrategyB) /\ Usable(StrategyC)
        /\ via = "fallback" <=> ~Usable(StrategyA) /\ ~Usable(StrategyB) /\ ~Usable(StrategyC)

\* The response classes of C4: (a) text that is no JSON and holds no object,
\* (b) JSON without a testCases member, (c) a JSON object between prose (and
\* no fenced block in the text).
PlainMalformed == ~StrategyA.ok /\ ~Includes(text, <<"{">>)
ValidWithoutCases == StrategyA.ok /\ CasesOfValue(StrategyA.v) = Undefined
ObjectDocs == {d \in WrapDocs : JSONparse(d).ok /\ JSONparse(d).v.t = "obj"}
EmbeddedTexts == {Wrap(w, d) : w \in 3..5, d \in ObjectDocs}
EmbeddedObject == text \in EmbeddedTexts /\ ~CodeBlockMatch(text).ok

\* The cases of a fallback array: every one is stamped by the fallback generator.
FallbackStamps == {Str(<<"f", "a", "l", "l", "b", "a", "c", "k", "-", "f", "u", "n", "c", "t", "i", "o", "n", "-", "b", "a", "s", "e", "d">>), Str(<<"f", "a", "l", "l", "b", "a", "c", "k", "-", "g", "e", "n", "e", "r", "i", "c">>)}
FallbackCases(cases) ==
    cases # <<>> /\ \A k \in 1..Len(cases) : cases[k].generatedBy \in FallbackStamps

\* What the fallback generator answers for the files and config at hand: it
\* throws for a non-empty file list and requested types that are truthy but no
\* list, gives the empty array for no file or an empty type list, and a
\* non-empty array otherwise.
FallbackOutcome ==
    /\ via = "fallback"
    /\ IF files # <<>> /\ Truthy(config.types) /\ config.types.t # "arr"
       THEN pc = "ParseThrew"
       ELSE /\ pc = "ParseReturned"
            /\ IF files = <<>> \/ config.types = Arr(<<>>)
               THEN result = <<>>
               ELSE FallbackCases(result)

\* C4 (amended): malformed text, JSON without testCases, and an embedded object
\* without a usable testCases array go to the fallback generator, whose array is
\* non-empty exactly when there is a file and a requested type (it throws when
\* the types are no list); an embedded object with a usable testCases array is
\* answered by strategy (c) with its own cases.
C4_MalformedResponses ==
    ParseEnded =>
        /\ (PlainMalformed \/ ValidWithoutCases) => FallbackOutcome
        /\ (EmbeddedObject /\ ~Usable(StrategyC)) => FallbackOutcome
        /\ (EmbeddedObject /\ Usable(StrategyC)) =>
              /\ pc = "ParseReturned"
              /\ via = "scan"
              /\ Len(result) = Len(CasesOfValue(StrategyC.v).a)

\* C4 (as stated): in the three classes parse returns a non-empty array of
\* fallback cases and never throws.
C4_AlwaysNonEmptyFallback ==
    (ParseEnded /\ (PlainMalformed \/ ValidWithoutCases \/ EmbeddedObject)) =>
        pc = "ParseReturned" /\ via = "fallback" /\ FallbackCases(result)

\* An object with a usable testCases array between prose was answered by
\* strategy (c).
C4_Witness ==
    /\ pc = "ParseReturned"
    /\ EmbeddedObject
    /\ Usable(StrategyC)
    /\ via = "scan"
    /\ result # <<>>

\* C5 precondition: the response is JSON holding a testCases array.
HoldsCasesArray == Settles(StrategyA) /\ CasesOfValue(StrategyA.v).t = "arr"
SuppliedList == CasesOfValue(StrategyA.v).a

\* The entry without its members named f.
Without(e, f) == IF e.t # "obj" THEN e ELSE Obj(SelectSeq(e.o, LAMBDA m : m.k # FieldSpelling[f]))

\* What the normalisation makes of entry e at position k (from 1).
Normal(e, k) == NormalizeEntry(e, k - 1, text, files, config, clock).v

\* A truthy supplied value is kept; a falsy one is treated as a missing one.
FieldKept(e, k, f, r) ==
    IF Truthy(Get(e, FieldSpelling[f])) THEN r[f] = Get(e, FieldSpelling[f])
    ELSE r[f] = Normal(Without(e, f), k)[f]

\* C5 (amended): for JSON holding a testCases array whose entries normalise,
\* parse returns an array of the same length; a supplied field value is kept
\* only when it is truthy, and an empty string, 0, null or false is replaced by
\* the default like a missing field.  When an entry does not normalise the
\* whole response goes to the fallback generator.
C5_RoundTrip ==
    (ParseEnded /\ HoldsCasesArray) =>
        IF ListNormalises(CasesOfValue(StrategyA.v))
        THEN /\ pc = "ParseReturned"
             /\ via = "direct"
             /\ Len(result) = Len(SuppliedList)
             /\ \A k \in 1..Len(SuppliedList) : \A f \in FieldNames :
                    FieldKept(SuppliedList[k], k, f, result[k])
        ELSE via = "fallback"

\* C5 (as stated): the array has the length of the input, and every supplied
\* field value is returned unchanged.
C5_SuppliedValuesUnchanged ==
    (ParseEnded /\ HoldsCasesArray) =>
        /\ pc = "ParseReturned"
        /\ via = "direct"
        /\ Len(result) = Len(SuppliedList)
        /\ \A k \in 1..Len(SuppliedList) : \A f \in FieldNames :
               Get(SuppliedList[k], FieldSpelling[f]) # Undefined =>
                   result[k][f] = Get(SuppliedList[k], FieldSpelling[f])

\* An entry supplied an empty title and got the default one.
C5_Witness ==
    /\ pc = "ParseReturned"
    /\ via = "direct"
    /\ HoldsCasesArray
    /\ Len(SuppliedList) = 1
    /\ Get(SuppliedList[1], <<"t", "i", "t", "l", "e">>) = Str(<<>>)
    /\ result[1].title = Str(<<"T", "e", "s", "t", " ", "C", "a", "s", "e", " ", "1">>)

\* C6: prose, then a fenced json block holding {"testCases":[{"title":"x"}]}.
ProseThenBlock == Wrap(7, CasesDoc(<<TitleX>>))

\* C6 (amended): with a first file to render the code template for, the
\* response is answered by strategy (b) with one case titled "x", every other
\* field as for an entry without fields, and generatedBy = "gemini-ai"; with no
\* file the normalisation fails and the (empty) fallback array is returned.
C6_FencedBlock ==
    (ParseEnded /\ text = ProseThenBlock) =>
        IF files = <<>> THEN pc = "ParseReturned" /\ via = "fallback" /\ result = <<>>
        ELSE /\ pc = "ParseReturned"
             /\ via = "block"
             /\ Len(result) = 1
             /\ result[1].title = Str(<<"x">>)
             /\ result[1].generatedBy = Str(<<"g", "e", "m", "i", "n", "i", "-", "a", "i">>)
             /\ result[1] = [Normal(Obj(<<>>), 1) EXCEPT !.title = Str(<<"x">>)]

\* C6 (as stated): strategy (b) gives one case titled "x" with generatedBy =
\* "model".
C6_StampedModel ==
    (ParseEnded /\ text = ProseThenBlock) =>
        /\ pc = "ParseReturned"
        /\ via = "block"
        /\ Len(result) = 1
        /\ result[1].title = Str(<<"x">>)
        /\ result[1].generatedBy = Str(<<"m", "o", "d", "e", "l">>)

C6_Witness ==
    /\ pc = "ParseReturned"
    /\ text = ProseThenBlock
    /\ via = "block"
    /\ Len(result) = 1
    /\ result[1].generatedBy = Str(<<"g", "e", "m", "i", "n", "i", "-", "a", "i">>)

\* The list the returned cases were normalised from.
AnsweredList == CasesOfValue(ParsedDocument(text).v).a

\* The language and the dependency list of the first file's default framework,
\* as the tables of the service give them for the files in use.
ExpectedLanguage ==
    IF files = <<>> THEN Str(<<"j", "a", "v", "a", "s", "c", "r", "i", "p", "t">>)
    ELSE IF files[1] = UtilPy THEN Str(<<"p", "y", "t", "h", "o", "n">>)
    ELSE IF files[1] = MainGo THEN Str(<<"g", "o">>)
    ELSE Str(<<"j", "a", "v", "a", "s", "c", "r", "i", "p", "t">>)
ExpectedDependencies ==
    IF ExpectedLanguage = Str(<<"p", "y", "t", "h", "o", "n">>) THEN Arr(<<Str(<<"p", "y", "t", "e", "s", "t">>)>>)
    ELSE IF ExpectedLanguage = Str(<<"g", "o">>) THEN Arr(<<>>)
    ELSE Arr(<<Str(<<"j", "e", "s", "t">>), Str(<<"@", "t", "y", "p", "e", "s", "/", "j", "e", "s", "t">>)>>)

\* config.types?.[0] || 'unit' for the configs in use: the first element of a
\* list, the first character of a string.
ExpectedType ==
    IF config.types.t = "arr" /\ config.types.a # <<>> THEN config.types.a[1]
    ELSE IF config.types = Str(<<"u", "n", "i", "t">>) THEN Str(<<"u">>)
    ELSE Str(<<"u", "n", "i", "t">>)

Missing(e, f) == Get(e, f) = Undefined

\* The defaults of entry e at position k (from 1) in the case r made of it;
\* noDeps and noTags are the defaults of dependencies and tags.
DefaultsOf(e, k, r, noDeps, noTags) ==
    /\ Missing(e, <<"t", "i", "t", "l", "e">>) => r.title = Str(<<"T", "e", "s", "t", " ", "C", "a", "s", "e", " ">> \o DigitsOf(k))
    /\ Missing(e, <<"t", "y", "p", "e">>) => r.type = ExpectedType
    /\ Missing(e, <<"p", "r", "i", "o", "r", "i", "t", "y">>) => r.priority = Str(<<"m", "e", "d", "i", "u", "m">>)
    /\ Missing(e, <<"f", "i", "l", "e">>) =>
          r.file = (IF files = <<>> THEN Str(<<"u", "n", "k", "n", "o", "w", "n">>) ELSE Str(files[1].path))
    /\ Missing(e, <<"c", "o", "d", "e">>) => r.code.t = "str" /\ r.code.s # <<>>
    /\ Missing(e, <<"d", "e", "p", "e", "n", "d", "e", "n", "c", "i", "e", "s">>) => r.dependencies = noDeps
    /\ Missing(e, <<"t", "a", "g", "s">>) => r.tags = noTags

\* C7 (amended): a missing title, type, priority, file and code take the
\* documented defaults; missing dependencies take the dependency list of the
\* default framework for the first file's language (empty only when that
\* framework has none listed), and missing tags the one-element list holding
\* that language.
C7_Defaults ==
    (pc = "ParseReturned" /\ via # "fallback") =>
        \A k \in 1..Len(result) :
            DefaultsOf(AnsweredList[k], k, result[k], ExpectedDependencies,
                       Arr(<<ExpectedLanguage>>))

\* C7 (as stated): missing dependencies and tags become empty collections.
C7_EmptyCollections ==
    (pc = "ParseReturned" /\ via # "fallback") =>
        \A k \in 1..Len(result) :
            DefaultsOf(AnsweredList[k], k, result[k], Arr(<<>>), Arr(<<>>))

\* An entry holding a title only, for a JavaScript file: it got the jest
\* dependencies and the language tag.
C7_Witness ==
    /\ pc = "ParseReturned"
    /\ via = "direct"
    /\ text = CasesDoc(<<TitleX>>)
    /\ files # <<>>
    /\ files[1] = MathJs
    /\ result[1].dependencies = Arr(<<Str(<<"j", "e", "s", "t">>), Str(<<"@", "t", "y", "p", "e", "s", "/", "j", "e", "s", "t">>)>>)
    /\ result[1].tags = Arr(<<Str(<<"j", "a", "v", "a", "s", "c", "r", "i", "p", "t">>)>>)

----------------------------------------------------------------------------
(* Properties of a generation request, checked under Spec *)

\* C1: a request with a non-empty file list always completes with an array of
\* test cases: the fallback generator always ends in Done and the promise of
\* generateTestCases never rejects.
C1_RequestNeverRejects == files # <<>> => pc # "Rejected"

----------------------------------------------------------------------------
(* Properties of the file selection, checked under SpecSelect *)

\* A selected entry that came from the backfill: a raw file record, without
\* the fields of the analysis.
IsBackfilled(file) == "category" \notin DOMAIN file

\* C8: for a maxFiles that is not negative, select returns N files with
\* 0 <= N <= maxFiles, backfilled test files included.
C8_AtMostMaxFiles ==
    (pc = "Selected" /\ maxFiles >= 0) =>
        /\ Len(selection.selectedFiles) <= maxFiles
        /\ selection.totalAnalyzed = Len(selection.selectedFiles)

\* The selection is full, its last entry is a backfilled test file, and the
\* listing holds a second test file that found no slot.
C8_Witness ==
    /\ pc = "Selected"
    /\ maxFiles > 0
    /\ Len(selection.selectedFiles) = maxFiles
    /\ IsBackfilled(selection.selectedFiles[maxFiles])
    /\ \E k \in 1..Len(repoFiles) :
          /\ HasCategory(analyzeFile(repoFiles[k]), "test")
          /\ \A i \in 1..maxFiles : selection.selectedFiles[i].path # repoFiles[k].path

\* The rank of C9: source, then config, then backfilled test files.
Rank(file) ==
    IF IsBackfilled(file) THEN 3
    ELSE IF file.category = "source" THEN 1
    ELSE 2

\* C9: in the selection every source file stands before every config file, and
\* every config file before every backfilled test file.
C9_SourceConfigTestOrder ==
    pc = "Selected" =>
        \A i, j \in 1..Len(selection.selectedFiles) :
            i < j => Rank(selection.selectedFiles[i]) <= Rank(selection.selectedFiles[j])

\* C10: for one manifest and five source files in any order and maxFiles = 3,
\* the selection holds exactly three files, all of category source, and not
\* the manifest.
C10_ManifestNotSelected ==
    (pc = "Selected" /\ repoFiles \in ManifestListings /\ maxFiles = 3) =>
        /\ Len(selection.selectedFiles) = 3
        /\ \A i \in 1..Len(selection.selectedFiles) :
              /\ ~IsBackfilled(selection.selectedFiles[i])
              /\ selection.selectedFiles[i].category = "source"
              /\ selection.selectedFiles[i].path \notin {m.path : m \in Manifests}

----------------------------------------------------------------------------
(* Properties of the selection of an empty listing, checked under SpecSelect *)

StrategyFields == {"testFramework", "testFilePattern", "testDirectory", "mockingLibrary"}

\* A strategy: an object with its four fields set
IsStrategy(s) ==
    /\ DOMAIN s = StrategyFields
    /\ \A f \in StrategyFields : s[f] # null

\* C13: selectFilesForTestGeneration over an empty listing, whatever maxFiles,
\* returns an empty selection, the structure detectProjectStructure gives for an
\* empty listing (type "unknown"; framework, buildTool and testFramework null; the
\* code's fifth field, language, null as well) and a test strategy that is not null.
C13_EmptyListing ==
    (pc = "Selected" /\ repoFiles = <<>>) =>
        /\ selection.selectedFiles = <<>>
        /\ selection.totalAnalyzed = 0
        /\ selection.projectStructure = detectProjectStructure(<<>>)
        /\ selection.projectStructure.type = "unknown"
        /\ selection.projectStructure.framework = null
        /\ selection.projectStructure.buildTool = null
        /\ selection.projectStructure.testFramework = null
        /\ selection.projectStructure.language = null
        /\ IsStrategy(selection.testStrategy)

\* An empty listing was selected from, with room for files, and the strategy is
\* the default one.
C13_Witness ==
    /\ pc = "Selected"
    /\ repoFiles = <<>>
    /\ maxFiles > 0
    /\ selection.selectedFiles = <<>>
    /\ selection.testStrategy.testFramework = "jest"

----------------------------------------------------------------------------
(* Properties of the classifier, the detector and the resolver, checked    *)
(* under SpecAnalyze                                                       *)

Ignored(file) == shouldIgnoreFile(file.path, FileNameOf(file))

\* C11 as stated: whatever the name and the path of a file, missing ones
\* included, the value analyzeFile returns has every field: shouldAnalyze, type,
\* category, priority and reason.
C11_EveryFieldPresent ==
    pc = "Classified" =>
        {"shouldAnalyze", "type", "category", "priority", "reason"} \subseteq DOMAIN outcome

\* C11: whatever the name and the path of a file, missing ones included,
\* analyzeFile returns a value with shouldAnalyze and reason; a file to analyze has
\* type, category and priority as well, an ignored file has none of the three,
\* and a file of an unsupported type has type "unknown" and neither category nor
\* priority.
C11_FieldsByOutcome ==
    pc = "Classified" =>
        /\ {"shouldAnalyze", "reason"} \subseteq DOMAIN outcome
        /\ outcome.shouldAnalyze \in BOOLEAN
        /\ IF outcome.shouldAnalyze
           THEN /\ {"type", "category", "priority"} \subseteq DOMAIN outcome
                /\ outcome.priority \in 1..4
           ELSE IF Ignored(subject)
           THEN DOMAIN outcome = {"shouldAnalyze", "ignored", "reason"}
           ELSE /\ DOMAIN outcome = {"shouldAnalyze", "type", "reason"}
                /\ outcome.type = "unknown"

\* A record with neither name nor path was classified: it is not to be analyzed
\* and its result has no category.
C11_Witness ==
    /\ pc = "Classified"
    /\ subject = RepoFile(<<>>, <<>>)
    /\ ~outcome.shouldAnalyze
    /\ "category" \notin DOMAIN outcome

\* C12: a file at the repository root (its path is its name) whose name is on
\* the important-config list is to be analyzed, with category config and
\* priority 2.
C12_RootConfigIncluded ==
    (/\ pc = "Classified"
     /\ Listed(importantConfigFiles, subject.name)
     /\ subject.path = subject.name)
        => /\ outcome.shouldAnalyze
           /\ "category" \in DOMAIN outcome /\ outcome.category = "config"
           /\ "priority" \in DOMAIN outcome /\ outcome.priority = 2

\* The marker rules in their fixed order: a rule matches when one of its names is
\* listed or a listed name ends with one of its suffixes.
MarkerRules ==
    <<[names |-> { <<"p", "a", "c", "k", "a", "g", "e", ".", "j", "s", "o", "n">> }, suffixes |-> {},
       type |-> "javascript", language |-> null, buildTool |-> "npm"],
      [names |-> { <<"r", "e", "q", "u", "i", "r", "e", "m", "e", "n", "t", "s", ".", "t", "x", "t">>, <<"P", "i", "p", "f", "i", "l", "e">>, <<"p", "y", "p", "r", "o", "j", "e", "c", "t", ".", "t", "o", "m", "l">> }, suffixes |-> {},
       type |-> "python", language |-> "python", buildTool |-> null],
      [names |-> { <<"p", "o", "m", ".", "x", "m", "l">> }, suffixes |-> {},
       type |-> "java", language |-> "java", buildTool |-> "maven"],
      [names |-> { <<"b", "u", "i", "l", "d", ".", "g", "r", "a", "d", "l", "e">> }, suffixes |-> {},
       type |-> "java", language |-> "java", buildTool |-> "gradle"],
      [names |-> { <<"g", "o", ".", "m", "o", "d">> }, suffixes |-> {},
       type |-> "go", language |-> "go", buildTool |-> "go"],
      [names |-> { <<"C", "a", "r", "g", "o", ".", "t", "o", "m", "l">> }, suffixes |-> {},
       type |-> "rust", language |-> "rust", buildTool |-> "cargo"],
      [names |-> {}, suffixes |-> { <<".", "c", "s", "p", "r", "o", "j">>, <<".", "s", "l", "n">> },
       type |-> "csharp", language |-> "csharp", buildTool |-> "dotnet"]>>

NamesListed(listing) ==
    {IF listing[k].name # <<>> THEN listing[k].name ELSE basename(listing[k].path) :
        k \in 1..Len(listing)}

RuleMatches(rule, listing) ==
    \E n \in NamesListed(listing) :
        n \in rule.names \/ \E suffix \in rule.suffixes : EndsWith(n, suffix)

MatchingRules(listing) == {k \in 1..Len(MarkerRules) : RuleMatches(MarkerRules[k], listing)}

FromRule(structure, rule) ==
    /\ structure.type = rule.type
    /\ structure.language = rule.language
    /\ structure.buildTool = rule.buildTool

\* C14: detectProjectStructure gives one project type, that of the first marker
\* rule that matches in the order package.json, Python manifests, pom.xml,
\* build.gradle, go.mod, Cargo.toml, .csproj/.sln; type, language and buildTool are
\* all those of that one rule (null where the rule sets none), also when markers of
\* several types are listed, and type is "unknown" with both null when no rule
\* matches.
C14_FirstMarkerWins ==
    pc = "Detected" =>
        IF MatchingRules(subject) = {}
        THEN FromRule(outcome, [type |-> "unknown", language |-> null, buildTool |-> null])
        ELSE FromRule(outcome, MarkerRules[Least(MatchingRules(subject))])

\* A listing with a pom.xml before a package.json was detected as a javascript
\* project built with npm.
C14_Witness ==
    /\ pc = "Detected"
    /\ Len(subject) = 2
    /\ subject[1].name = <<"p", "o", "m", ".", "x", "m", "l">>
    /\ subject[2].name = <<"p", "a", "c", "k", "a", "g", "e", ".", "j", "s", "o", "n">>
    /\ outcome.type = "javascript"
    /\ outcome.buildTool = "npm"
    /\ outcome.language = null

\* The types the strategy table holds an entry for
TableTypes == {"javascript", "typescript", "python", "java", "go", "rust"}

\* The structure with nothing detected but its type
Bare(type) ==
    [type |-> type, framework |-> null, buildTool |-> null, testFramework |-> null,
     language |-> null]

\* C15: getTestGenerationStrategy returns, for every structure, a strategy with
\* testFramework, testFilePattern, testDirectory and mockingLibrary set; a type the
\* table does not hold gets the default entry, which is the javascript one.
C15_ResolveTotal ==
    pc = "Resolved" =>
        /\ IsStrategy(outcome)
        /\ subject.type \notin TableTypes =>
              /\ outcome.testFilePattern = "{filename}.test.js"
              /\ outcome.testDirectory = "__tests__"
              /\ outcome.mockingLibrary \in {"jest", "@testing-library/react"}
              /\ subject.testFramework = null => outcome.testFramework = "jest"

\* A test framework was detected: the field holds a name.
Detected(structure) == structure.testFramework \notin {null, ""}

\* C16 as stated: for every type, a detected testFramework is the strategy's
\* testFramework, and the three other fields are those of the entry of the type
\* whatever the other fields of the structure.
C16_DetectedFrameworkEverywhere ==
    (pc = "Resolved" /\ Detected(subject)) =>
        /\ IsStrategy(outcome)
        /\ outcome.testFramework = subject.testFramework
        /\ outcome.testFilePattern = getTestGenerationStrategy(Bare(subject.type)).testFilePattern
        /\ outcome.testDirectory = getTestGenerationStrategy(Bare(subject.type)).testDirectory
        /\ outcome.mockingLibrary = getTestGenerationStrategy(Bare(subject.type)).mockingLibrary

FixedFramework(type) ==
    CASE type = "java" -> "junit"
      [] type = "go" -> "go test"
      [] type = "rust" -> "cargo test"

\* C16: for a type that gets a strategy (one that names no member the table
\* inherits), a detected testFramework is the strategy's testFramework for
\* javascript, typescript, python and the types of the default entry; java, go
\* and rust have junit, go test and cargo test whatever was detected.
\* testFilePattern and testDirectory are those of the entry of the type whatever
\* the other fields; so is mockingLibrary, except that the javascript,
\* typescript and default entries have "@testing-library/react" exactly when
\* framework is "react".
C16_DetectedFrameworkByType ==
    (pc = "Resolved" /\ Detected(subject) /\ subject.type \notin InheritedNames) =>
        /\ IsStrategy(outcome)
        /\ outcome.testFramework =
              IF subject.type \in {"java", "go", "rust"} THEN FixedFramework(subject.type)
              ELSE subject.testFramework
        /\ outcome.testFilePattern = getTestGenerationStrategy(Bare(subject.type)).testFilePattern
        /\ outcome.testDirectory = getTestGenerationStrategy(Bare(subject.type)).testDirectory
        /\ outcome.mockingLibrary =
              IF subject.type \notin {"python", "java", "go", "rust"} /\ subject.framework = "react"
              THEN "@testing-library/react"
              ELSE getTestGenerationStrategy(Bare(subject.type)).mockingLibrary

\* A java structure with jest detected was resolved to junit.
C16_Witness ==
    /\ pc = "Resolved"
    /\ subject.type = "java"
    /\ subject.testFramework = "jest"
    /\ outcome.testFramework = "junit"

----------------------------------------------------------------------------
(* Properties of the fallback generator, checked under SpecRepeat and Spec *)

SameCase(a, b) ==
    /\ a.title = b.title
    /\ a.type = b.type
    /\ a.file = b.file
    /\ a.code = b.code

\* C17: when createFallbackTestCases has returned twice for the same reason,
\* files and config, the second call having run in the state the first had
\* left, the two arrays have the same length and their cases agree, position
\* by position, on title, type, file and code (and on every field but id and
\* createdAt), whether or not time passed between the calls.
C17_RepeatedFallback ==
    pc = "CalledTwice" =>
        /\ Len(result) = Len(earlier)
        /\ \A k \in 1..Len(result) :
              /\ SameCase(result[k], earlier[k])
              /\ \A f \in DOMAIN result[k] \ {"id", "createdAt"} : result[k][f] = earlier[k][f]

\* The generator has returned twice for two files, a millisecond apart: the
\* second call visited both files and its cases carry other ids.
C17_Witness ==
    /\ pc = "CalledTwice"
    /\ visited = 2
    /\ testCases = result
    /\ Len(result) >= 2
    /\ Len(earlier) >= 2
    /\ result[1].id # earlier[1].id
    /\ result[Len(result)].generatedBy = Str(<<"f", "a", "l", "l", "b", "a", "c", "k", "-", "f", "u", "n", "c", "t", "i", "o", "n", "-", "b", "a", "s", "e", "d">>)

UnitOnly == Arr(<<Str(<<"u", "n", "i", "t">>)>>)

\* C18: for one JavaScript file that exports two functions, in whatever export
\* form, with config.types = ["unit"] and a model call that failed, the request
\* ends with two test cases, one for each of the two functions, both of type unit
\* and stamped fallback-function-based.
C18_TwoExportsTwoCases ==
    (/\ pc = "Done"
     /\ via = "fallback"
     /\ \E err \in ModelErrors \cup ResponseErrors : reason = AIFailed(err)
     /\ files \in ExportLists
     /\ config.types = UnitOnly)
        => /\ Len(result) = 2
           /\ {result[k].function : k \in 1..Len(result)} = {Str(<<"f", "o", "o">>), Str(<<"b", "a", "r">>)}
           /\ \A k \in 1..Len(result) :
                 /\ result[k].type = Str(<<"u", "n", "i", "t">>)
                 /\ result[k].generatedBy = Str(<<"f", "a", "l", "l", "b", "a", "c", "k", "-", "f", "u", "n", "c", "t", "i", "o", "n", "-", "b", "a", "s", "e", "d">>)

----------------------------------------------------------------------------
(* Properties of the repository-generation request, checked under          *)
(* SpecRepository                                                          *)

\* The fetches that failed, and those that brought a content small enough
FailedFetches == {k \in 1..Len(fetched) : fetched[k].state = "failed"}
ValidFetches ==
    {k \in 1..Len(fetched) : fetched[k].state = "fetched" /\ fetched[k].size < 100000}

\* The n-th smallest member of a set of indices
Nth(S, n) == CHOOSE k \in S : Cardinality({j \in S : j <= k}) = n

\* generateTestCases was called, or the request was answered with its result
Generating == pc \in {"Prompting", "AwaitingModel", "AwaitingResponse", "Parsing", "FallingBack", "Done", "Rejected"}
Succeeded == pc = "Responded" /\ response.status = 200

\* The paths a response records a per-file error for
ErrorPaths(body) ==
    IF "errors" \in DOMAIN body THEN {body.errors[i].path : i \in 1..Len(body.errors)} ELSE {}

\* C19: a failed content fetch is isolated.  The files handed to
\* generateTestCases are exactly the selected files whose fetch brought a
\* content under 100000 bytes, in selection order and each with its own
\* content; while one of them is left the request is not answered 400, and
\* answered 500 only for options that override the types; and the result of a
\* request that succeeded records a per-file error for every file whose fetch
\* failed.
C19_FailureIsolatedAndRecorded ==
    /\ (Generating \/ Succeeded) =>
          /\ Len(files) = Cardinality(ValidFetches)
          /\ \A n \in 1..Len(files) :
                /\ files[n].path = selection.selectedFiles[Nth(ValidFetches, n)].path
                /\ files[n].content = fetched[Nth(ValidFetches, n)].decodedContent
    /\ (pc = "Responded" /\ ValidFetches # {}) =>
          /\ response.status \in {200, 500}
          /\ response.status = 500 => request.options # Undefined
    /\ Succeeded =>
          \A k \in FailedFetches : selection.selectedFiles[k].path \in ErrorPaths(response.body)

\* Every fetch settled without a usable content, one of them at least by failing
NothingFetched ==
    /\ pc = "Responded"
    /\ Len(fetched) > 0
    /\ FailedFetches # {}
    /\ ValidFetches = {}

\* C20: when fetch failures leave no analyzable file, the request still
\* succeeds, and every test case of its result, if it has any, is one of the
\* fallback generator.
C20_EmptyStillSucceeds ==
    NothingFetched =>
        /\ response.status = 200
        /\ \A k \in 1..Len(response.body.testCases) :
              response.body.testCases[k].generatedBy \in FallbackStamps

----------------------------------------------------------------------------
(* Claims about one generation request, continued *)

\* C21: within one generation request the model is invoked at most once; the
\* step after a model error is the fallback generator, which neither invokes
\* the model again nor attempts a parse.
C21_OneInvocation ==
    [][/\ calls' <= 1
       /\ (pc \in {"AwaitingModel", "AwaitingResponse"} /\ reason' # reason) => (pc' = "FallingBack" /\ calls' = calls)
       /\ pc = "FallingBack" =>
              /\ calls' = calls
              /\ text' = text
              /\ pc' \in {"FallingBack", "Done", "Rejected"}
              /\ pc' = "Done" => via' = "fallback"]_vars

\* The model was invoked once and failed: the fallback generator is next.
C21_Witness ==
    /\ pc = "FallingBack"
    /\ calls = 1
    /\ reason \in {AIFailed(err) : err \in ModelErrors}
    /\ text = <<>>

\* C22: no generation config makes a request fail: whatever types, complexity
\* and framework hold, the prompt is built (the model is invoked before any
\* fallback) and the fallback generator completes.
C22_InvalidConfigCompletes ==
    files # <<>> =>
        /\ calls = 0 => pc = "Prompting"
        /\ pc = "FallingBack" => reason # AIFailed("TypeError")
        /\ pc # "Rejected"

----------------------------------------------------------------------------
(* Claims about the classifier and the detector, continued; checked under  *)
(* SpecAnalyze                                                             *)

HasTestInfix(fileName) ==
    Includes(fileName, <<".", "t", "e", "s", "t", ".">>) \/ Includes(fileName, <<".", "s", "p", "e", "c", ".">>)

\* The table entry a test-like name is classified by when the last segment is
\* the fallback of the two-segment suffix.
SuffixThenLast(twoSegment, lastSegment) ==
    IF twoSegment # <<>> THEN twoSegment[1] ELSE lastSegment[1]

FallsBackToLast(fileName, out) ==
    (/\ HasTestInfix(fileName)
     /\ "ignored" \notin DOMAIN out
     /\ ~Listed(importantConfigFiles, fileName)
     /\ ExtensionEntries(extname(fileName)) # <<>>)
        => out = Supported(SuffixThenLast(ExtensionEntries(getFileExtension(fileName)),
                                          ExtensionEntries(extname(fileName))))

\* C23: a file whose name contains .test. or .spec. is classified by its
\* two-segment suffix when the table has it, else by its last segment: with a
\* supported last segment it is never rejected as unsupported.
C23_TestNameFallsBack ==
    pc = "Classified" => FallsBackToLast(FileNameOf(subject), outcome)

LogRule == <<"*", ".", "l", "o", "g">>

IgnoredByOther(filePath, fileName) ==
    \E k \in 1..Len(ignoredPaths) :
        ignoredPaths[k] # LogRule /\ IgnoredBy(ignoredPaths[k], filePath, fileName)

\* C27: the rule *.log rejects a file only if its name or its path contains
\* the text ".log": a file without it that matches no other ignore entry is
\* not ignored.
C27_LogRuleLiteral ==
    pc = "Classified" =>
        ((/\ subject.name # <<>> \/ subject.path # <<>>
          /\ ~Includes(FileNameOf(subject), <<".", "l", "o", "g">>)
          /\ ~Includes(subject.path, <<".", "l", "o", "g">>)
          /\ ~IgnoredByOther(subject.path, FileNameOf(subject)))
            => "ignored" \notin DOMAIN outcome)

\* The files of a listing that decide the project type, and the rest of it:
\* the files that can only be framework or test-framework cues.
IsTypeMarker(file) == \E k \in 1..Len(MarkerRules) : RuleMatches(MarkerRules[k], <<file>>)
Cues(listing) == SelectSeq(listing, LAMBDA file : ~IsTypeMarker(file))
TypeMarkers == {file \in MarkerFiles : IsTypeMarker(file)}

\* The same cues under every type decision: with no marker, and with each one.
Redecided(listing) ==
    {detectProjectStructure(Cues(listing))}
        \cup {detectProjectStructure(<<m>> \o Cues(listing)) : m \in TypeMarkers}

\* C24 as stated: the framework and the test framework that detect returns
\* depend on the cue paths only, not on the type rule that matched.
C24_FrameworksIgnoreType ==
    pc = "Detected" =>
        \A other \in Redecided(subject) :
            /\ other.framework = outcome.framework
            /\ other.testFramework = outcome.testFramework

SameRule(a, b) == a.type = b.type /\ a.buildTool = b.buildTool

\* C24: the test framework that detect returns depends on the cue paths only,
\* whichever type rule matched or none; the framework is decided inside the
\* type rule that matched: it is the same for the same cues under the same
\* rule, and null under the rules that look for none (build.gradle, go.mod,
\* Cargo.toml, .csproj/.sln, or no rule).
C24_FrameworkWithinType ==
    pc = "Detected" =>
        /\ \A other \in Redecided(subject) :
              /\ other.testFramework = outcome.testFramework
              /\ SameRule(other, outcome) => other.framework = outcome.framework
        /\ outcome.testFramework \in {null, "jest", "cypress", "pytest", "unittest"}
        /\ outcome.type = "javascript" =>
              outcome.framework \in {null, "react", "nextjs", "nuxtjs", "angular", "svelte"}
        /\ outcome.type = "python" => outcome.framework \in {null, "django", "flask", "fastapi"}
        /\ outcome.buildTool = "maven" => outcome.framework \in {null, "spring"}
        /\ (outcome.type \notin {"javascript", "python"} /\ outcome.buildTool # "maven")
              => outcome.framework = null

\* A listing with pom.xml and src/App.js was detected as a java project with
\* no framework: the react cue counts under package.json only.
C24_Witness ==
    /\ pc = "Detected"
    /\ Len(subject) = 2
    /\ subject[1].name = <<"p", "o", "m", ".", "x", "m", "l">>
    /\ subject[2].path = <<"s", "r", "c", "/", "A", "p", "p", ".", "j", "s">>
    /\ outcome.type = "java"
    /\ outcome.framework = null
    /\ detectProjectStructure(<<AtRoot(<<"p", "a", "c", "k", "a", "g", "e", ".", "j", "s", "o", "n">>), subject[2]>>).framework = "react"

----------------------------------------------------------------------------
(* Claims about the fallback generator, continued; checked under SpecRepeat *)

SignaturesOf(file) == extractFunctionsFromCode(file.content, detectLanguage(file.path)).v

NoDuplicateNames(sigs) ==
    \A i, j \in 1..Len(sigs) : sigs[i].name = sigs[j].name => i = j

\* The positions of the cases of result made for a file.
CasesFor(file) == {k \in 1..Len(result) : result[k].file = Str(file.path)}

\* Exactly one case of the file for the signature and the type, stamped as
\* function-based.
OneCaseFor(file, sig, type) ==
    Cardinality({k \in CasesFor(file) :
                    /\ result[k].function = Str(sig.name)
                    /\ result[k].type = type
                    /\ result[k].generatedBy = Str(<<"f", "a", "l", "l", "b", "a", "c", "k", "-", "f", "u", "n", "c", "t", "i", "o", "n", "-", "b", "a", "s", "e", "d">>)}) = 1

OneGenericFor(file, type) ==
    Cardinality({k \in CasesFor(file) :
                    /\ result[k].function = Null
                    /\ result[k].type = type
                    /\ result[k].generatedBy = Str(<<"f", "a", "l", "l", "b", "a", "c", "k", "-", "g", "e", "n", "e", "r", "i", "c">>)}) = 1

\* The cases of a file are one per pair of a signature among the first used
\* of sigs and a requested type, or one generic case per type for no signature.
OnePerPair(file, sigs, used, types) ==
    /\ NoDuplicateNames(sigs)
    /\ IF sigs = <<>>
       THEN /\ \A t \in 1..Len(types) : OneGenericFor(file, types[t])
            /\ Cardinality(CasesFor(file)) = Len(types)
       ELSE /\ \A i \in 1..used : \A t \in 1..Len(types) : OneCaseFor(file, sigs[i], types[t])
            /\ Cardinality(CasesFor(file)) = used * Len(types)

Returned == pc \in {"CalledOnce", "CalledTwice"}

\* C25 as stated: for each file the fallback generator emits one case for
\* every pair of a signature the extraction returned and a requested type.
C25_EverySignature ==
    Returned =>
        \A f \in 1..Len(files) :
            OnePerPair(files[f], SignaturesOf(files[f]), Len(SignaturesOf(files[f])),
                       RequestedTypes(config).a)

\* C25: for each file the fallback generator emits exactly one case for every
\* pair of one of the first three signatures the extraction returned (it
\* returns five at most, without duplicate names) and a requested type, each
\* stamped fallback-function-based; for a file without signature, exactly one
\* case per requested type, stamped fallback-generic.
C25_FirstThreeSignatures ==
    Returned =>
        \A f \in 1..Len(files) :
            /\ Len(SignaturesOf(files[f])) <= 5
            /\ OnePerPair(files[f], SignaturesOf(files[f]), Min(3, Len(SignaturesOf(files[f]))),
                          RequestedTypes(config).a)

\* A file of six functions after a file of none, two types requested: two
\* generic cases, then two cases for each of f1, f2 and f3.
C25_Witness ==
    /\ pc = "CalledOnce"
    /\ files = <<MainGo, ManyJs>>
    /\ Len(SignaturesOf(ManyJs)) = 5
    /\ Len(RequestedTypes(config).a) = 2
    /\ Len(result) = 8
    /\ result[2].generatedBy = Str(<<"f", "a", "l", "l", "b", "a", "c", "k", "-", "g", "e", "n", "e", "r", "i", "c">>)
    /\ result[8].function = Str(<<"f", "3">>)

\* What may stand between the word export and the name it exports.
DeclarationWords ==
    {<<" ">>, <<" ", "f", "u", "n", "c", "t", "i", "o", "n", " ">>, <<" ", "c", "o", "n", "s", "t", " ">>, <<" ", "a", "s", "y", "n", "c", " ", "f", "u", "n", "c", "t", "i", "o", "n", " ">>, <<" ", "d", "e", "f", "a", "u", "l", "t", " ", "f", "u", "n", "c", "t", "i", "o", "n", " ">>}

\* The word stands at position j, no word character before or behind it.
WordAt(content, j, word) ==
    /\ StartsWith(content, j, word)
    /\ (j = 1 \/ content[j - 1] \notin WordChars)
    /\ (j + Len(word) > Len(content) \/ content[j + Len(word)] \notin WordChars)

\* The content exports the function of that name itself.
OwnExport(content, name) ==
    \E i \in 1..Len(content), w \in DeclarationWords :
        /\ WordAt(content, i, <<"e", "x", "p", "o", "r", "t">>)
        /\ StartsWith(content, i + 6, w)
        /\ WordAt(content, i + 6 + Len(w), name)

PriorityByOwnExport(case, file) ==
    (case.file = Str(file.path) /\ case.generatedBy = Str(<<"f", "a", "l", "l", "b", "a", "c", "k", "-", "f", "u", "n", "c", "t", "i", "o", "n", "-", "b", "a", "s", "e", "d">>))
        => (case.priority = Str(<<"h", "i", "g", "h">>) <=> OwnExport(file.content, case.function.s))

\* C26: a function-based fallback case has priority high exactly when its own
\* signature is exported, and medium otherwise, also in a file that exports
\* another function.
C26_PriorityByOwnExport ==
    Returned =>
        \A k \in 1..Len(result) : \A f \in 1..Len(files) :
            /\ PriorityByOwnExport(result[k], files[f])
            /\ result[k].priority \in {Str(<<"h", "i", "g", "h">>), Str(<<"m", "e", "d", "i", "u", "m">>)}

----------------------------------------------------------------------------
(* Claims about the repository-generation request, continued; checked      *)
(* under SpecRepository                                                    *)

\* The place in the selection of the file with that path.
PlaceOf(filePath) ==
    CHOOSE k \in 1..Len(selection.selectedFiles) :
        selection.selectedFiles[k].path = filePath

Counted(analysis) ==
    /\ analysis.totalFiles = Len(repoFiles)
    /\ analysis.analyzedFiles = Len(files)
    /\ analysis.analyzedFiles <= analysis.selectedFiles
    /\ analysis.selectedFiles <= analysis.totalFiles

\* C28: the fetches of the selected files, those that slice(0, maxFiles) takes
\* of the selection, are all under way at once and settle in any order;
\* whatever the order, the files analyzed are the files whose content arrived
\* under the size limit, in the order of the selection, and the counts of a
\* result satisfy analyzedFiles <= selectedFiles <= totalFiles.
C28_AnyCompletionOrder ==
    /\ pc = "Fetching" =>
          /\ Len(fetched) = Len(FirstN(selection.selectedFiles, maxFiles))
          /\ maxFiles >= 0 => Len(fetched) = Min(Len(selection.selectedFiles), maxFiles)
          /\ \A k \in 1..Len(fetched) :
                fetched[k].state # "pending" => fetched[k].nth \in 1..SettledSoFar(fetched)
    /\ (Generating \/ Succeeded) =>
          /\ {files[n].path : n \in 1..Len(files)}
                = {selection.selectedFiles[k].path : k \in ValidFetches}
          /\ \A m, n \in 1..Len(files) :
                m < n => PlaceOf(files[m].path) < PlaceOf(files[n].path)
    /\ Succeeded => Counted(response.body.analysis)

\* The fetch of the second file completed before that of the first, both
\* brought a content, and the request analyzed the first file first.
C28_Witness ==
    /\ Succeeded
    /\ Len(fetched) >= 2
    /\ {1, 2} \subseteq ValidFetches
    /\ fetched[2].nth < fetched[1].nth
    /\ files[1].path = selection.selectedFiles[1].path
    /\ files[2].path = selection.selectedFiles[2].path
    /\ response.body.analysis.analyzedFiles >= 2

----------------------------------------------------------------------------
(* Claims about the session store, checked under SpecSessions *)

\* The last request went through validateSession and was let through: the
\* middleware set its sessionId.
PassedValidation == "sessionId" \in DOMAIN request /\ request.sessionId # NoHeader

\* The last request was a status check that found its session valid.
FoundValid ==
    /\ "route" \in DOMAIN request
    /\ request.route = "status"
    /\ response.body.authenticated

\* The last request named a session that was more than SESSION_TIMEOUT old.
MetExpired ==
    /\ "route" \in DOMAIN request
    /\ request.route \in {"me", "logout", "generate", "status"}
    /\ request.authorization \in 1..Len(issued)
    /\ request.at - issued[request.authorization] > SESSION_TIMEOUT

\* C29: a session id passes validateSession, or is found valid by the status
\* check, only if it was not logged out before and no more than SESSION_TIMEOUT
\* has passed since its creation.  The creation time of a session never
\* changes, whatever its last access is, and an expired session that
\* validateSession or the status check meets is deleted.
C29_ExpiryFromCreation ==
    /\ PassedValidation =>
          /\ request.at - issued[request.sessionId] <= SESSION_TIMEOUT
          /\ request.route # "logout" => request.sessionId \notin Range(loggedOut)
    /\ \A i, j \in 1..Len(loggedOut) : loggedOut[i] = loggedOut[j] => i = j
    /\ FoundValid =>
          /\ request.at - issued[request.authorization] <= SESSION_TIMEOUT
          /\ request.authorization \notin Range(loggedOut)
    /\ \A id \in DOMAIN activeSessions :
          /\ activeSessions[id].createdAt = issued[id]
          /\ activeSessions[id].lastAccessed >= issued[id]
          /\ id \notin Range(loggedOut)
    /\ MetExpired =>
          /\ ~PassedValidation
          /\ ~FoundValid
          /\ request.authorization \notin DOMAIN activeSessions

\* A session was met by
\* validateSession one millisecond past SESSION_TIMEOUT after its creation: the request
\* was answered 401 and the session is gone.
C29_Witness ==
    /\ MetExpired
    /\ request.route = "me"
    /\ response = Answer(401, [error |-> "Session expired"])
    /\ request.authorization \notin DOMAIN activeSessions
    /\ request.at - issued[request.authorization] = SESSION_TIMEOUT + 1

\* C30: activeSessions and githubClients hold the same session ids, each
\* client being that of its session's token, so a request that validateSession
\* lets through finds its client.
C30_SameIds ==
    /\ DOMAIN activeSessions = DOMAIN githubClients
    /\ \A id \in DOMAIN activeSessions :
          githubClients[id].token = activeSessions[id].accessToken
    /\ (PassedValidation /\ request.route = "generate") =>
          /\ ~outcome.threw
          /\ outcome.v.token = request.githubToken
          /\ "status" \notin DOMAIN response

\* After the logout of the first session, a request of the second one went
\* through validateSession and found its client.
C30_Witness ==
    /\ PassedValidation
    /\ request.route = "generate"
    /\ request.sessionId = 2
    /\ loggedOut = <<1>>
    /\ ~outcome.threw
    /\ DOMAIN githubClients = {2}

====
